---- MODULE Spec2Model ----
(***************************************************************************)
(* Model of Isolierung_logic.py: the conductivity interpolator interp_k,   *)
(* the linear resistance solver _solve_constant_k and the Picard solver    *)
(* solve_multilayer_kT.  Python floats are modelled as exact rationals     *)
(* <<numerator, denominator>> in lowest terms with a positive denominator, *)
(* so "equal" below means equal in exact arithmetic.  One section runs the *)
(* solver on constant conductivities in binary floating point with a      *)
(* short mantissa, rounded half to even (specification FlSpec).  The       *)
(* stores of materials and projects, the construction of layers, and the   *)
(* layer list of Isolierung_ui.py's calculation tab have sections of       *)
(* their own.                                                              *)
(***************************************************************************)
EXTENDS Integers, Sequences, FiniteSets, TLC

(***************************************************************************)
(* Exact rational arithmetic (the float operators of the source).          *)
(***************************************************************************)
RECURSIVE GCD(_, _)
GCD(a, b) == IF b = 0 THEN a ELSE GCD(b, a % b)

IAbs(n) == IF n < 0 THEN -n ELSE n

Reduce(n, d, g) == IF d < 0 THEN <<-(n \div g), -(d \div g)>> ELSE <<n \div g, d \div g>>

Norm(n, d) == Reduce(n, d, GCD(IAbs(n), IAbs(d)))

R(n) == <<n, 1>>

Q(n, d) == Norm(n, d)

AddOver(a, b, g) == Norm(a[1] * (b[2] \div g) + b[1] * (a[2] \div g), (a[2] \div g) * b[2])

RAdd(a, b) == AddOver(a, b, GCD(a[2], b[2]))

RNeg(a) == <<-a[1], a[2]>>

RSub(a, b) == RAdd(a, RNeg(b))

MulReduced(x, y) == <<x[1] * y[1], x[2] * y[2]>>

RMul(a, b) == MulReduced(Norm(a[1], b[2]), Norm(b[1], a[2]))

RDiv(a, b) == RMul(a, Norm(b[2], b[1]))

\* a - b with the common factor g of the denominators divided out first.
Diff(a, b, g) == a[1] * (b[2] \div g) - b[1] * (a[2] \div g)

RLt(a, b) == Diff(a, b, GCD(a[2], b[2])) < 0

RLe(a, b) == Diff(a, b, GCD(a[2], b[2])) <= 0

RAbs(a) == <<IAbs(a[1]), a[2]>>

RMax(a, b) == IF RLt(a, b) THEN b ELSE a

\* sum(s), added up by halves: the sum of exact values does not depend on
\* the grouping, and the evaluation nests only as deep as log2 of the length.
RECURSIVE RSum(_)
RSum(s) ==
    IF s = <<>> THEN R(0)
    ELSE IF Len(s) = 1 THEN s[1]
    ELSE RAdd(RSum(SubSeq(s, 1, Len(s) \div 2)), RSum(SubSeq(s, (Len(s) \div 2) + 1, Len(s))))

Zero == R(0)

(***************************************************************************)
(* Optional values (Python None) and outcomes of a call: a returned value  *)
(* or a raised exception, named by its type and message.                   *)
(***************************************************************************)
None == <<>>

Some(v) == <<v>>

Ok(v) == [exc |-> "none", val |-> v]

Raise(e) == [exc |-> e, val |-> None]

IsOk(o) == o.exc = "none"

ErrOnlyClamp == "ValueError: Only 'clamp' interpolation mode is currently supported."
ErrNoK == "ValueError: Material has neither k_points nor k_const defined."
ErrNoKT == "ValueError: Material does not provide k(T) data."
ErrNoKTInterp == "ValueError: Material does not provide k(T) data for interpolation."
ErrNoConst == "ValueError: Material does not define a constant k value."
ErrRange == "ValueError: Temperature is outside the available k(T) data for material."
ErrKPositive == "ValueError: Thermal conductivity must be positive."
ErrKPositiveAll == "ValueError: Thermal conductivity must be positive for all layers."
ErrKInterpPositive == "ValueError: Interpolated thermal conductivity must be positive."
ErrNoLayers == "ValueError: At least one layer is required for the computation."
ErrH == "ValueError: Convective heat transfer coefficient must be positive."
ErrTol == "ValueError: Tolerance must be positive."
ErrMaxIter == "ValueError: max_iter must be positive."
ErrCells == "ValueError: cells_per_layer must be positive."
ErrThickness == "ValueError: Layer thickness must be positive."
ErrCustomKT == "ValueError: Custom layers do not support temperature dependent k(T)."
ErrNotFound == "KeyError: Material not found."
ErrMode == "ValueError: Layer mode must be either 'material' or 'custom'."
ErrMaterialId == "ValueError: Material layers require a material_id."
ErrMaterialKConst == "ValueError: Material layers must not provide k_const when use_kT is False."
ErrCustomMaterialId == "ValueError: Custom layers must not reference a material_id."
ErrCustomKConst == "ValueError: Custom layers require a positive k_const value."
ErrKey == "KeyError"
ErrMaterialName == "ValueError: Material name must not be empty."
ErrKConstPositive == "ValueError: k_const must be positive if provided."
ErrKValues == "ValueError: Thermal conductivity values must be positive."
ErrDuplicate == "ValueError: Duplicate temperature values detected."
ErrIntegrity == "sqlite3.IntegrityError"
ErrProjectName == "ValueError: Project name must not be empty."
ErrProjectLayers == "ValueError: Projects must contain at least one layer."
ErrProjectNotFound == "KeyError: Project not found."
ErrConvergence == "RuntimeError: Picard iteration did not converge within max_iter iterations."
ErrZeroDivision == "ZeroDivisionError"
ErrAssertion == "AssertionError"

(***************************************************************************)
(* Material and interp_k.                                                  *)
(***************************************************************************)
Material(kc, pts) == [k_const |-> kc, k_points |-> pts]

\* sorted(points, key=lambda item: item[0]): a stable sort by temperature.
RECURSIVE InsertPoint(_, _)
InsertPoint(p, s) ==
    IF s = <<>> THEN <<p>>
    ELSE IF RLt(p[1], Head(s)[1]) THEN <<p>> \o s
    ELSE <<Head(s)>> \o InsertPoint(p, Tail(s))

\* The points as listed: the sort left out.
UnsortedPoints(s) == s

RECURSIVE SortedPoints(_)
SortedPoints(s) ==
    IF s = <<>> THEN <<>>
    ELSE InsertPoint(s[Len(s)], SortedPoints(SubSeq(s, 1, Len(s) - 1)))

\* The for loop over zip(points[:-1], points[1:]) with its fall-through return.
RECURSIVE InterpScan(_, _, _)
InterpScan(points, i, T_C) ==
    IF i >= Len(points) THEN points[Len(points)][2]
    ELSE LET T0 == points[i][1]
             k0 == points[i][2]
             T1 == points[i + 1][1]
             k1 == points[i + 1][2]
         IN  IF RLe(T0, T_C) /\ RLe(T_C, T1)
             THEN IF T1 = T0 THEN k1
                  ELSE LET fraction == RDiv(RSub(T_C, T0), RSub(T1, T0))
                       IN  RAdd(k0, RMul(fraction, RSub(k1, k0)))
             ELSE InterpScan(points, i + 1, T_C)

\* The line through two points, followed beyond them.
Extrapolated(p0, p1, T_C) ==
    IF p1[1] = p0[1] THEN p1[2]
    ELSE RAdd(p0[2], RMul(RDiv(RSub(T_C, p0[1]), RSub(p1[1], p0[1])), RSub(p1[2], p0[2])))

\* Lines 384-398 without the two returns at the ends of the range: outside
\* the range the first or the last segment is followed on.
InterpSortedUnclamped(points, T_C, mode) ==
    IF mode # "clamp" THEN Raise(ErrOnlyClamp)
    ELSE IF Len(points) = 1 THEN Ok(points[1][2])
    ELSE IF RLe(T_C, points[1][1]) THEN Ok(Extrapolated(points[1], points[2], T_C))
    ELSE IF RLe(points[Len(points)][1], T_C)
    THEN Ok(Extrapolated(points[Len(points) - 1], points[Len(points)], T_C))
    ELSE Ok(InterpScan(points, 1, T_C))

\* Lines 384-398 on the sorted points.
InterpSorted(points, T_C, mode) ==
    IF mode # "clamp" THEN Raise(ErrOnlyClamp)
    ELSE IF Len(points) = 1 THEN Ok(points[1][2])
    ELSE IF RLe(T_C, points[1][1]) THEN Ok(points[1][2])
    ELSE IF RLe(points[Len(points)][1], T_C) THEN Ok(points[Len(points)][2])
    ELSE Ok(InterpScan(points, 1, T_C))

\* interp_k without the fallback to k_const: no points is always an error.
InterpNoFallback(material, T_C, mode) ==
    IF material.k_points # <<>>
    THEN InterpSorted(SortedPoints(material.k_points), T_C, mode)
    ELSE Raise(ErrNoK)

interp_k(material, T_C, mode) ==
    IF material.k_points # <<>>
    THEN InterpSorted(SortedPoints(material.k_points), T_C, mode)
    ELSE IF material.k_const = None THEN Raise(ErrNoK)
    ELSE Ok(material.k_const[1])

\* The strict branch without its range check.
StrictInterpUnchecked(material, points, T_C) ==
    IF points = <<>>
    THEN IF material.k_const = None THEN Raise(ErrNoKTInterp)
         ELSE Ok(material.k_const[1])
    ELSE interp_k(material, T_C, "clamp")

\* Lines 597-609: the strict branch of the nested helper, on the sorted points.
StrictInterp(material, points, T_C) ==
    IF points = <<>>
    THEN IF material.k_const = None THEN Raise(ErrNoKTInterp)
         ELSE Ok(material.k_const[1])
    ELSE IF RLt(T_C, points[1][1]) \/ RLt(points[Len(points)][1], T_C) THEN Raise(ErrRange)
    ELSE interp_k(material, T_C, "clamp")

\* The nested helper with a strict branch that answers the conductivity of
\* the lowest sample for every temperature inside the sampled range.
InterpStrictLowest(material, T_C, clamp) ==
    IF clamp THEN interp_k(material, T_C, "clamp")
    ELSE IF material.k_points = <<>> \/ ~IsOk(StrictInterp(material, SortedPoints(material.k_points), T_C))
    THEN StrictInterp(material, SortedPoints(material.k_points), T_C)
    ELSE Ok(SortedPoints(material.k_points)[1][2])

\* The nested helper of solve_multilayer_kT.
_interp_material_k(material, T_C, clamp) ==
    IF clamp THEN interp_k(material, T_C, "clamp")
    ELSE StrictInterp(material, SortedPoints(material.k_points), T_C)

(***************************************************************************)
(* The material store as the solver reads it, and layers.                  *)
(***************************************************************************)
\* get_material: a lookup by id, the sample points fetched ORDER BY T_C.
\* A lookup that answers a blank material for an id that is not stored.
GetMaterialOrBlank(materials, material_id) ==
    IF material_id \in DOMAIN materials
    THEN Ok(Material(materials[material_id].k_const,
                     SortedPoints(materials[material_id].k_points)))
    ELSE Ok(Material(None, <<>>))

get_material(materials, material_id) ==
    IF material_id \in DOMAIN materials
    THEN Ok(Material(materials[material_id].k_const,
                     SortedPoints(materials[material_id].k_points)))
    ELSE Raise(ErrNotFound)

Layer(thickness_mm, mode, material_id, use_kT, k_const) ==
    [thickness_mm |-> thickness_mm, mode |-> mode, material_id |-> material_id,
     use_kT |-> use_kT, k_const |-> k_const]

\* Layer.__post_init__: TRUE iff construction succeeds.
LayerValid(l) ==
    /\ l.thickness_mm[1] > 0
    /\ l.mode \in {"material", "custom"}
    /\ l.mode = "material" =>
          /\ l.material_id # None
          /\ ~(~l.use_kT /\ l.k_const # None)
    /\ l.mode = "custom" =>
          /\ l.material_id = None
          /\ ~l.use_kT => (l.k_const # None /\ l.k_const[1][1] > 0)

MmPerM == 1000

(***************************************************************************)
(* _solve_constant_k                                                       *)
(***************************************************************************)
Min(a, b) == IF a < b THEN a ELSE b

\* A value put in front of the values computed after it, unless those failed.
Prepend(x, rest) == IF IsOk(rest) THEN Ok(<<x>> \o rest.val) ELSE rest

\* The same for a step that can fail itself: the first failure wins.
Chain(first, rest) == IF IsOk(first) THEN Prepend(first.val, rest) ELSE first

\* zip(thickness_m, k_values) with the positivity check.
RECURSIVE Resistances(_, _, _)
Resistances(thickness_m, k_values, i) ==
    IF i > Min(Len(thickness_m), Len(k_values)) THEN Ok(<<>>)
    ELSE IF RLe(k_values[i], Zero) THEN Raise(ErrKPositive)
    ELSE Prepend(RDiv(thickness_m[i], k_values[i]),
                 Resistances(thickness_m, k_values, i + 1))

\* The walk with the sign of the temperature drop reversed.
RECURSIVE WalkUp(_, _, _)
WalkUp(start, q, Rs) ==
    IF Rs = <<>> THEN <<start>>
    ELSE <<start>> \o WalkUp(RAdd(start, RMul(q, Head(Rs))), q, Tail(Rs))

\* T_0 = start; T_i = T_{i-1} - q * R_i, walking left to right.  The walk
\* over a long list is the walk over its first half, continued from that
\* walk's last temperature over the second half.
RECURSIVE Walk(_, _, _)
RECURSIVE WalkOn(_, _, _)
WalkOn(walked, q, Rs) == walked \o Tail(Walk(walked[Len(walked)], q, Rs))

Walk(start, q, Rs) ==
    IF Rs = <<>> THEN <<start>>
    ELSE IF Len(Rs) = 1 THEN <<start, RSub(start, RMul(q, Rs[1]))>>
    ELSE WalkOn(Walk(start, q, SubSeq(Rs, 1, Len(Rs) \div 2)), q,
                SubSeq(Rs, (Len(Rs) \div 2) + 1, Len(Rs)))

\* Running sum of the widths starting at 0, by halves like Walk.
RECURSIVE Positions(_, _)
RECURSIVE PositionsOn(_, _)
PositionsOn(placed, widths) == placed \o Tail(Positions(placed[Len(placed)], widths))

Positions(start, widths) ==
    IF widths = <<>> THEN <<start>>
    ELSE IF Len(widths) = 1 THEN <<start, RAdd(start, widths[1])>>
    ELSE PositionsOn(Positions(start, SubSeq(widths, 1, Len(widths) \div 2)),
                     SubSeq(widths, (Len(widths) \div 2) + 1, Len(widths)))

ThicknessM(layers) == [i \in 1..Len(layers) |-> RDiv(layers[i].thickness_mm, R(MmPerM))]

\* Lines 479-484.
LinearResult(q, interface_temperatures, x_m) ==
    Ok([q_W_m2 |-> q, interface_T_C |-> interface_temperatures, x_m |-> x_m,
        T_profile_C |-> interface_temperatures])

LinearWalk(thickness_m, resistances, q, T_left_C) ==
    LinearResult(q, Walk(T_left_C, q, resistances), Positions(Zero, thickness_m))

\* Lines 465-477.
LinearFlux(thickness_m, resistances, total_resistance, T_left_C, T_inf_C) ==
    IF total_resistance = Zero THEN Raise(ErrZeroDivision)
    ELSE LinearWalk(thickness_m, resistances,
                    RDiv(RSub(T_left_C, T_inf_C), total_resistance), T_left_C)

\* The total resistance without the convective resistance.
LinearTotalNoConvection(thickness_m, resistances, T_left_C, T_inf_C, h_W_m2K) ==
    IF ~IsOk(resistances) THEN resistances
    ELSE IF h_W_m2K = Zero THEN Raise(ErrZeroDivision)
    ELSE LinearFlux(thickness_m, resistances.val, RSum(resistances.val), T_left_C, T_inf_C)

\* Lines 463-464.
LinearTotal(thickness_m, resistances, T_left_C, T_inf_C, h_W_m2K) ==
    IF ~IsOk(resistances) THEN resistances
    ELSE IF h_W_m2K = Zero THEN Raise(ErrZeroDivision)
    ELSE LinearFlux(thickness_m, resistances.val,
                    RAdd(RSum(resistances.val), RDiv(R(1), h_W_m2K)), T_left_C, T_inf_C)

_solve_constant_k(layers, k_values, T_left_C, T_inf_C, h_W_m2K) ==
    LinearTotal(ThicknessM(layers), Resistances(ThicknessM(layers), k_values, 1),
                T_left_C, T_inf_C, h_W_m2K)

(***************************************************************************)
(* solve_multilayer_kT: argument checks, layer resolution, initial guess.  *)
(***************************************************************************)
\* The argument checks without the check of h.
CheckArgumentsNoH(layers, h_W_m2K, tol, max_iter, cells_per_layer) ==
    IF layers = <<>> THEN Raise(ErrNoLayers)
    ELSE IF RLe(tol, Zero) THEN Raise(ErrTol)
    ELSE IF max_iter <= 0 THEN Raise(ErrMaxIter)
    ELSE IF cells_per_layer <= 0 THEN Raise(ErrCells)
    ELSE Ok(None)

\* Lines 498-509.
CheckArguments(layers, h_W_m2K, tol, max_iter, cells_per_layer) ==
    IF layers = <<>> THEN Raise(ErrNoLayers)
    ELSE IF RLe(h_W_m2K, Zero) THEN Raise(ErrH)
    ELSE IF RLe(tol, Zero) THEN Raise(ErrTol)
    ELSE IF max_iter <= 0 THEN Raise(ErrMaxIter)
    ELSE IF cells_per_layer <= 0 THEN Raise(ErrCells)
    ELSE Ok(None)

\* Lines 520-521.
LayerDx(layer, cells_per_layer) ==
    RDiv(RDiv(layer.thickness_mm, R(MmPerM)), R(cells_per_layer))

\* Lines 534-545: the conductivity of a material-backed layer.
MaterialLayerK(layer, material, T_mid) ==
    IF layer.use_kT
    THEN IF material.k_points = <<>> /\ material.k_const = None THEN Raise(ErrNoKT)
         ELSE interp_k(material, T_mid, "clamp")
    ELSE IF material.k_const = None THEN Raise(ErrNoConst)
         ELSE Ok(material.k_const[1])

\* Lines 552-562.
Descriptor(layer, material, k_const, dx) ==
    IF ~IsOk(k_const) THEN k_const
    ELSE IF RLe(k_const.val, Zero) THEN Raise(ErrKPositiveAll)
    ELSE Ok([dx |-> dx, use_kT |-> layer.use_kT, material |-> material,
             k_const |-> k_const.val])

\* Lines 528-545, given the outcome of the material lookup.
MaterialDescriptor(layer, looked, T_mid, dx) ==
    IF ~IsOk(looked) THEN looked
    ELSE Descriptor(layer, Some(looked.val), MaterialLayerK(layer, looked.val, T_mid), dx)

\* The loop body with the custom branch's use_kT test left out: a custom
\* layer is resolved as a constant layer whenever it carries a constant.
ResolveLayerCustomConstant(materials, layer, T_mid, cells_per_layer) ==
    IF RLe(LayerDx(layer, cells_per_layer), Zero) THEN Raise(ErrThickness)
    ELSE IF layer.mode = "material"
    THEN MaterialDescriptor(layer, get_material(materials, layer.material_id[1]), T_mid,
                            LayerDx(layer, cells_per_layer))
    ELSE IF layer.k_const = None THEN Raise(ErrCustomKT)
    ELSE Descriptor([layer EXCEPT !.use_kT = FALSE], None, Ok(layer.k_const[1]),
                    LayerDx(layer, cells_per_layer))

\* The body of the loop over the layers: one layer's descriptor.
ResolveLayer(materials, layer, T_mid, cells_per_layer) ==
    IF RLe(LayerDx(layer, cells_per_layer), Zero) THEN Raise(ErrThickness)
    ELSE IF layer.mode = "material"
    THEN MaterialDescriptor(layer, get_material(materials, layer.material_id[1]), T_mid,
                            LayerDx(layer, cells_per_layer))
    ELSE IF layer.use_kT THEN Raise(ErrCustomKT)
    ELSE Descriptor(layer, None, Ok(layer.k_const[1]), LayerDx(layer, cells_per_layer))

RECURSIVE ResolveLayers(_, _, _, _, _)
ResolveLayers(materials, layers, T_mid, cells_per_layer, i) ==
    IF i > Len(layers) THEN Ok(<<>>)
    ELSE Chain(ResolveLayer(materials, layers[i], T_mid, cells_per_layer),
               ResolveLayers(materials, layers, T_mid, cells_per_layer, i + 1))

\* The cell arrays with the inner loop over range(cells_per_layer) forgotten:
\* one cell per layer.
CellsOnePerLayer(descriptors, cells_per_layer) ==
    [c \in 1..Len(descriptors) |-> descriptors[c]]

\* The cell arrays cell_dx, cell_material, cell_use_kT, cell_k_const: every
\* layer's descriptor repeated cells_per_layer times.
Cells(descriptors, cells_per_layer) ==
    [c \in 1..(Len(descriptors) * cells_per_layer) |->
        descriptors[((c - 1) \div cells_per_layer) + 1]]

CellResistancesInit(cells) == [c \in 1..Len(cells) |-> RDiv(cells[c].dx, cells[c].k_const)]

CellWidths(cells) == [c \in 1..Len(cells) |-> cells[c].dx]

ConstantKValues(descriptors) == [i \in 1..Len(descriptors) |-> descriptors[i].k_const]

\* The evaluation temperature taken at the left boundary instead of the middle.
TLeftOnly(T_left_C, T_inf_C) == T_left_C

TMid(T_left_C, T_inf_C) == RMul(Q(1, 2), RAdd(T_left_C, T_inf_C))

\* Lines 568-590: the initial profile over the cells.
GuessProfile(descriptors, linear, cells, T_left_C) ==
    IF ~IsOk(linear) THEN linear
    ELSE Ok([layer_descriptors |-> descriptors,
             linear_result |-> linear.val,
             q |-> linear.val.q_W_m2,
             T_profile |-> Walk(T_left_C, linear.val.q_W_m2, CellResistancesInit(cells)),
             x_m |-> Positions(Zero, CellWidths(cells))])

\* Line 567.
GuessLinear(resolved, layers, T_left_C, T_inf_C, h_W_m2K, cells_per_layer) ==
    IF ~IsOk(resolved) THEN resolved
    ELSE GuessProfile(resolved.val,
                      _solve_constant_k(layers, ConstantKValues(resolved.val),
                                        T_left_C, T_inf_C, h_W_m2K),
                      Cells(resolved.val, cells_per_layer), T_left_C)

\* Lines 511-564.
GuessResolve(checked, materials, layers, T_left_C, T_inf_C, h_W_m2K, cells_per_layer) ==
    IF ~IsOk(checked) THEN checked
    ELSE GuessLinear(ResolveLayers(materials, layers, TMid(T_left_C, T_inf_C),
                                   cells_per_layer, 1),
                     layers, T_left_C, T_inf_C, h_W_m2K, cells_per_layer)

\* Everything before the Picard loop.
InitialGuess(materials, layers, T_left_C, T_inf_C, h_W_m2K, cells_per_layer, tol, max_iter) ==
    GuessResolve(CheckArguments(layers, h_W_m2K, tol, max_iter, cells_per_layer),
                 materials, layers, T_left_C, T_inf_C, h_W_m2K, cells_per_layer)

(***************************************************************************)
(* solve_multilayer_kT: one pass of the Picard loop body, and projection.  *)
(***************************************************************************)
CellMeanT(T_profile, idx) == RMul(Q(1, 2), RAdd(T_profile[idx], T_profile[idx + 1]))

\* Lines 614-620: k_value of cell idx (counted from 1) for the current profile.
CellK(cells, T_profile, idx, clamp) ==
    IF cells[idx].use_kT
    THEN _interp_material_k(cells[idx].material[1], CellMeanT(T_profile, idx), clamp)
    ELSE Ok(cells[idx].k_const)

\* Lines 622-625.
CellResistance(dx, k_value) ==
    IF ~IsOk(k_value) THEN k_value
    ELSE IF RLe(k_value.val, Zero) THEN Raise(ErrKInterpPositive)
    ELSE Ok(RDiv(dx, k_value.val))

\* Two runs of the loop one after the other: the first failure wins.
Joined(first, rest) ==
    IF ~IsOk(first) THEN first
    ELSE IF ~IsOk(rest) THEN rest
    ELSE Ok(first.val \o rest.val)

\* The resistances of the cells lo..hi, by halves.
RECURSIVE CellRange(_, _, _, _, _)
CellRange(cells, T_profile, clamp, lo, hi) ==
    IF lo > hi THEN Ok(<<>>)
    ELSE IF lo = hi
    THEN Chain(CellResistance(cells[lo].dx, CellK(cells, T_profile, lo, clamp)), Ok(<<>>))
    ELSE Joined(CellRange(cells, T_profile, clamp, lo, (lo + hi) \div 2),
                CellRange(cells, T_profile, clamp, ((lo + hi) \div 2) + 1, hi))

\* The loop over the cells from cell idx on.
R_cells(cells, T_profile, clamp, idx) == CellRange(cells, T_profile, clamp, idx, Len(cells))

AbsDiff(a, b, i) == RAbs(RSub(a[i], b[i]))

\* The largest abs(a - b) over the entries lo..hi, by halves.
RECURSIVE MaxAbsDiffRange(_, _, _, _)
MaxAbsDiffRange(a, b, lo, hi) ==
    IF lo >= hi THEN AbsDiff(a, b, lo)
    ELSE RMax(MaxAbsDiffRange(a, b, lo, (lo + hi) \div 2),
              MaxAbsDiffRange(a, b, ((lo + hi) \div 2) + 1, hi))

\* max(abs(a - b) for a, b in zip(T_new, T_profile))
MaxAbsDiff(a, b, i) == MaxAbsDiffRange(a, b, i, Min(Len(a), Len(b)))

\* Line 633.
PassDiff(T_new, q_new, T_profile) ==
    Ok([T_new |-> T_new, q_new |-> q_new, diff |-> MaxAbsDiff(T_new, T_profile, 1)])

\* Lines 629-631.
PassWalk(Rs, q_new, T_profile, T_left_C) ==
    PassDiff(Walk(T_left_C, q_new, Rs), q_new, T_profile)

\* The flux of a pass without the convective resistance R_conv.
PassFluxNoConvection(Rs, T_profile, T_left_C, T_inf_C, h_W_m2K) ==
    IF ~IsOk(Rs) THEN Rs
    ELSE PassWalk(Rs.val, RDiv(RSub(T_left_C, T_inf_C), RSum(Rs.val)), T_profile, T_left_C)

\* Line 627.
PassFlux(Rs, T_profile, T_left_C, T_inf_C, h_W_m2K) ==
    IF ~IsOk(Rs) THEN Rs
    ELSE PassWalk(Rs.val,
                  RDiv(RSub(T_left_C, T_inf_C), RAdd(RSum(Rs.val), RDiv(R(1), h_W_m2K))),
                  T_profile, T_left_C)

\* Lines 612-633: the loop body up to diff.
PicardPass(cells, T_profile, T_left_C, T_inf_C, h_W_m2K, clamp) ==
    PassFlux(R_cells(cells, T_profile, clamp, 1), T_profile, T_left_C, T_inf_C, h_W_m2K)

\* The projection with the stride forgotten: the first n_layers + 1 entries.
InterfaceTDense(T_left_C, T_profile, n_layers, cells_per_layer) ==
    <<T_left_C>> \o [i \in 1..n_layers |-> T_profile[i + 1]]

\* Lines 642-646: interface_T starts as [T_left_C]; the entry of the i-th
\* layer is the profile entry at the running count i * cells_per_layer.
InterfaceT(T_left_C, T_profile, n_layers, cells_per_layer) ==
    <<T_left_C>> \o [i \in 1..n_layers |-> T_profile[i * cells_per_layer + 1]]

(***************************************************************************)
(* Bounds and the inputs the calls are drawn from.                         *)
(***************************************************************************)
MaxLayers == 2

MaxCells == 2

MaxIter == 2

\* The material store: 1 constant only, 2 sample points on [45, 55], 3 one
\* sample point, 4 neither, 5 sample points on [0, 100] and a constant; 6 is
\* not stored.  Materials 2 and 5 are sharp conductivity curves: a step from
\* 1 to 3 between 49 and 51.
DefaultMaterials ==
    (1 :> Material(Some(R(1)), <<>>)) @@
    (2 :> Material(None, <<<<R(45), R(1)>>, <<R(49), R(1)>>, <<R(51), R(3)>>, <<R(55), R(3)>>>>)) @@
    (3 :> Material(None, <<<<R(50), Q(1, 2)>>>>)) @@
    (4 :> Material(None, <<>>)) @@
    (5 :> Material(Some(R(2)), <<<<R(0), R(1)>>, <<R(49), R(1)>>, <<R(51), R(3)>>, <<R(100), R(3)>>>>))

\* The rows of table projects at the time of a solve: one project "a" whose
\* layers_json holds one custom layer.
DefaultProjects ==
    (<<"a">> :> [layers_json |-> <<Layer(R(500), "custom", None, FALSE, Some(Q(1, 2)))>>,
                 T_left_C |-> R(100), T_inf_C |-> R(0), h_W_m2K |-> R(1)])

\* Layers whose resolution succeeds against DefaultMaterials.
GoodKinds ==
    {Layer(R(1000), "material", Some(m), TRUE, None) : m \in {1, 2, 3, 5}}
    \cup {Layer(R(1000), "material", Some(m), FALSE, None) : m \in {1, 5}}
    \cup {Layer(R(500), "custom", None, FALSE, Some(Q(1, 2)))}

\* Layers whose resolution fails: no constant, neither constant nor points,
\* a material that is not stored, a custom layer asking for k(T).
FailingKinds ==
    {Layer(R(1000), "material", Some(2), FALSE, None),
     Layer(R(1000), "material", Some(4), TRUE, None),
     Layer(R(1000), "material", Some(6), TRUE, None),
     Layer(R(500), "custom", None, TRUE, None),
     Layer(R(500), "custom", None, TRUE, Some(Q(1, 2)))}

LayerKinds == GoodKinds \cup FailingKinds

\* The stacks of at most MaxLayers layers.  The resolution loop stops at the
\* first failing layer, so a failing layer is the last layer of its stack.
Stacks ==
    {st \in UNION {[1..n -> LayerKinds] : n \in 0..MaxLayers} :
        \A i \in 1..(Len(st) - 1) : st[i] \in GoodKinds}

\* Stacks of at most one layer: the ones tried with invalid scalar arguments.
ShortStacks == {st \in Stacks : Len(st) <= 1}

\* <<T_left_C, T_inf_C>>: a hot side left, a hot side right, no difference.
BoundaryTemperatures == {<<R(100), R(0)>>, <<R(0), R(100)>>, <<R(50), R(50)>>}

Coefficients == {R(0), R(1)}

Tolerances == {R(0), Q(1, 1000), R(5)}

\* Materials handed to the interpolator directly: every list of at most
\* MaxPoints different points of PointPool, in every order, with or without
\* a constant.  (0, 0.03), (100, 0.05) are the points of scenario B.
MaxPoints == 3

PointPool == {<<R(0), Q(3, 100)>>, <<R(100), Q(5, 100)>>, <<R(50), Q(1, 10)>>, <<R(50), R(1)>>}

PointLists ==
    {pts \in UNION {[1..n -> PointPool] : n \in 0..MaxPoints} :
        \A i, j \in 1..Len(pts) : i # j => pts[i] # pts[j]}

TestMaterials == {Material(kc, pts) : kc \in {None, Some(R(2))}, pts \in PointLists}

QueryTemperatures == {R(-50), R(0), R(25), R(50), R(75), R(100), R(150)}

Modes == {"clamp", "strict"}

VARIABLES
    materials,          \* the material store
    layers, T_left_C, T_inf_C, h_W_m2K, cells_per_layer, tol, max_iter, clamp,
    pc,                 \* position in solve_multilayer_kT
    layer_descriptors, linear_result, T_profile, q, x_m,
    iteration,          \* passes of the Picard loop body run so far
    diff,               \* diff of the last pass (None before the first)
    outcome,            \* the call's result or exception (None while running)
    call,               \* a direct call of another function: its arguments and outcome
    projects,           \* the project store: the rows of table projects by name
    orphan_k_points,    \* rows of table material_k_points, by material_id, whose
                        \* material_id names no row of table materials
    layer_rows,         \* CalculationTab: the rows of the layer list
    selected_index,     \* CalculationTab: the index of the selected row, or None
    tree_selection,     \* the Treeview's selected item, by its position, or None
    tree_event          \* a <<TreeviewSelect>> event waits for its handler

\* The state of the calculation tab's layer list.
tab == <<layer_rows, selected_index, tree_selection, tree_event>>

args == <<materials, orphan_k_points, tab, projects, layers, T_left_C, T_inf_C, h_W_m2K, cells_per_layer, tol, max_iter, clamp>>

solver == <<args, pc, layer_descriptors, linear_result, T_profile, q, x_m, iteration, diff, outcome>>

vars == <<solver, call>>

\* Lines 631-644: the tab after its construction, with no row and no selection.
TabInitial ==
    /\ layer_rows = <<>>
    /\ selected_index = None
    /\ tree_selection = None
    /\ tree_event = FALSE

NoCall == [site |-> "none", material |-> Material(None, <<>>), T_C |-> Zero,
           mode |-> "clamp", outcome |-> None]

\* A call of solve_multilayer_kT: any stack with valid scalar arguments (the
\* smallest and the largest number of cells and of passes), or a short stack
\* with any scalar arguments.
Init ==
    /\ materials = DefaultMaterials
    /\ projects = DefaultProjects
    /\ orphan_k_points = <<>>
    /\ TabInitial
    /\ \E b \in BoundaryTemperatures : T_left_C = b[1] /\ T_inf_C = b[2]
    /\ clamp \in BOOLEAN
    /\ \/ /\ layers \in Stacks
          /\ h_W_m2K \in Coefficients \ {Zero}
          /\ tol \in Tolerances \ {Zero}
          /\ cells_per_layer \in {1, MaxCells}
          /\ max_iter \in {1, MaxIter}
       \/ /\ layers \in ShortStacks
          /\ h_W_m2K \in Coefficients
          /\ tol \in Tolerances
          /\ cells_per_layer \in 0..MaxCells
          /\ max_iter \in 0..MaxIter
    /\ pc = "entry"
    /\ layer_descriptors = <<>>
    /\ linear_result = None
    /\ T_profile = <<>>
    /\ q = Zero
    /\ x_m = <<>>
    /\ iteration = 0
    /\ diff = None
    /\ outcome = None
    /\ call = NoCall

SetupWith(g) ==
    IF IsOk(g)
    THEN /\ pc' = "loop"
         /\ layer_descriptors' = g.val.layer_descriptors
         /\ linear_result' = Some(g.val.linear_result)
         /\ T_profile' = g.val.T_profile
         /\ q' = g.val.q
         /\ x_m' = g.val.x_m
         /\ outcome' = None
    ELSE /\ pc' = "raised"
         /\ outcome' = Some(g)
         /\ UNCHANGED <<layer_descriptors, linear_result, T_profile, q, x_m>>

\* Lines 498-590: argument checks, resolution of the layers, initial profile.
Setup ==
    /\ pc = "entry"
    /\ \E g \in {InitialGuess(materials, layers, T_left_C, T_inf_C, h_W_m2K,
                              cells_per_layer, tol, max_iter)} : SetupWith(g)
    /\ UNCHANGED <<args, iteration, diff, call>>

\* Lines 634-638: the pass's values replace the stored ones; break if diff < tol.
Converged(d, tolerance) == RLt(d, tolerance)

IterateWith(p) ==
    IF IsOk(p)
    THEN /\ T_profile' = p.val.T_new
         /\ q' = p.val.q_new
         /\ diff' = Some(p.val.diff)
         /\ iteration' = iteration + 1
         /\ pc' = IF Converged(p.val.diff, tol) THEN "converged" ELSE "loop"
         /\ outcome' = None
    ELSE /\ pc' = "raised"
         /\ outcome' = Some(p)
         /\ UNCHANGED <<T_profile, q, diff, iteration>>

\* The loop without its bound: a pass runs whenever the profile has not converged.
PicardIterationUnbounded ==
    /\ pc = "loop"
    /\ iteration < max_iter + 1
    /\ \E p \in {PicardPass(Cells(layer_descriptors, cells_per_layer), T_profile,
                            T_left_C, T_inf_C, h_W_m2K, clamp)} : IterateWith(p)
    /\ UNCHANGED <<args, layer_descriptors, linear_result, x_m, call>>

\* Lines 611-638: one pass of the loop body.
PicardIteration ==
    /\ pc = "loop"
    /\ iteration < max_iter
    /\ \E p \in {PicardPass(Cells(layer_descriptors, cells_per_layer), T_profile,
                            T_left_C, T_inf_C, h_W_m2K, clamp)} : IterateWith(p)
    /\ UNCHANGED <<args, layer_descriptors, linear_result, x_m, call>>

\* The loop without its else branch: an exhausted loop falls through to the return.
LoopExhaustedFallsThrough ==
    /\ pc = "loop"
    /\ iteration >= max_iter
    /\ pc' = "converged"
    /\ outcome' = None
    /\ UNCHANGED <<args, layer_descriptors, linear_result, T_profile, q, x_m, iteration, diff, call>>

\* Lines 639-640: the loop's else branch.
LoopExhausted ==
    /\ pc = "loop"
    /\ iteration >= max_iter
    /\ pc' = "raised"
    /\ outcome' = Some(Raise(ErrConvergence))
    /\ UNCHANGED <<args, layer_descriptors, linear_result, T_profile, q, x_m, iteration, diff, call>>

\* Lines 642-653: projection to the layer interfaces and return.
Return ==
    /\ pc = "converged"
    /\ pc' = "returned"
    /\ outcome' = Some(Ok([q_W_m2 |-> q,
                           interface_T_C |-> InterfaceT(T_left_C, T_profile,
                                                        Len(layer_descriptors),
                                                        cells_per_layer),
                           x_m |-> x_m,
                           T_profile_C |-> T_profile]))
    /\ UNCHANGED <<args, layer_descriptors, linear_result, T_profile, q, x_m, iteration, diff, call>>

Next == Setup \/ PicardIteration \/ LoopExhausted \/ Return

Spec == Init /\ [][Next]_vars

(***************************************************************************)
(* compute_multilayer_layers: the constant conductivities of a stack       *)
(* without use_kT layers (lines 427-443).                                  *)
(***************************************************************************)
MaterialConstantK(looked) ==
    IF ~IsOk(looked) THEN looked
    ELSE IF looked.val.k_const = None THEN Raise(ErrNoConst)
    ELSE Ok(looked.val.k_const[1])

LayerConstantK(store, layer) ==
    IF layer.mode = "material"
    THEN MaterialConstantK(get_material(store, layer.material_id[1]))
    ELSE IF layer.k_const = None THEN Raise(ErrAssertion)
    ELSE Ok(layer.k_const[1])

RECURSIVE constant_k_values(_, _, _)
constant_k_values(store, stack, i) ==
    IF i > Len(stack) THEN Ok(<<>>)
    ELSE Chain(LayerConstantK(store, stack[i]), constant_k_values(store, stack, i + 1))

(***************************************************************************)
(* Properties of the solvers (specification Spec).                         *)
(***************************************************************************)
Final == pc \in {"returned", "raised"}

Returned == pc = "returned"

RaisedWith(e) == pc = "raised" /\ outcome = Some(Raise(e))

ScalarsValid ==
    /\ RLt(Zero, h_W_m2K)
    /\ RLt(Zero, tol)
    /\ max_iter >= 1
    /\ cells_per_layer >= 1

\* C1: solve_multilayer_kT returns only a converged profile: whenever it
\* has left the loop by break or has returned, the diff of the last pass it ran
\* is below tol and the returned profile is that pass's profile; when
\* max_iter passes have run and the last diff is not below tol, the only
\* step left is the convergence error; and the convergence error is raised
\* only after max_iter passes whose last diff is not below tol.
C1_NeverReturnsNonConverged ==
    /\ pc \in {"converged", "returned"} =>
          /\ diff # None
          /\ RLt(diff[1], tol)
          /\ iteration >= 1
    /\ Returned =>
          /\ IsOk(outcome[1])
          /\ outcome[1].val.T_profile_C = T_profile
          /\ outcome[1].val.q_W_m2 = q
    /\ (pc = "loop" /\ iteration >= max_iter) =>
          /\ diff # None
          /\ ~RLt(diff[1], tol)
          /\ ENABLED LoopExhausted
          /\ ~ENABLED PicardIteration
          /\ ~ENABLED Return
    /\ RaisedWith(ErrConvergence) =>
          /\ iteration = max_iter
          /\ diff # None
          /\ ~RLt(diff[1], tol)

\* A run of max_iter = 1 that did not converge ended with the convergence error.
C1_Witness == RaisedWith(ErrConvergence) /\ max_iter = 1 /\ iteration = 1

\* A measure of the work left: it is a natural number in every state.
Measure ==
    CASE pc = "entry" -> 2 * max_iter + 4
      [] pc = "loop" -> 2 * (max_iter - iteration) + 2
      [] pc = "converged" -> 1
      [] OTHER -> 0

\* C2: every call terminates within max_iter passes: every step strictly
\* decreases a natural-number measure of the work left, a step runs at most
\* one more pass and the number of passes run never exceeds max_iter, and a
\* call has an outcome, a result or an error, exactly when it has ended.
C2_TerminatesWithinMaxIter ==
    [][/\ Measure' < Measure
       /\ Measure' >= 0
       /\ iteration' <= max_iter'
       /\ iteration' <= iteration + 1
       /\ pc' \in {"loop", "converged", "returned", "raised"}
       /\ Final' <=> outcome' # None]_vars

\* All max_iter = MaxIter passes were run.
C2_Witness == pc = "converged" /\ iteration = max_iter /\ max_iter = MaxIter

AllConstant == layers # <<>> /\ \A i \in 1..Len(layers) : ~layers[i].use_kT

SameFluxAndInterfaces(result, linear) ==
    /\ IsOk(linear)
    /\ result.q_W_m2 = linear.val.q_W_m2
    /\ result.interface_T_C = linear.val.interface_T_C

LinearOnConstants(k_values) ==
    _solve_constant_k(layers, k_values, T_left_C, T_inf_C, h_W_m2K)

\* C3: for a stack without use_kT layers whose layers all have a constant
\* conductivity, and valid scalar arguments (any cells_per_layer >= 1), the
\* nonlinear solver returns, and its flux and interface temperatures equal
\* those of _solve_constant_k on the same layers and boundary conditions.
C3_NonlinearEqualsLinear ==
    (Final /\ AllConstant /\ ScalarsValid /\ IsOk(constant_k_values(materials, layers, 1))) =>
        /\ Returned
        /\ SameFluxAndInterfaces(outcome[1].val,
                                 LinearOnConstants(constant_k_values(materials, layers, 1).val))

\* Two constant layers of different conductivity, two cells each, with a
\* temperature difference.
C3_Witness ==
    /\ Returned
    /\ AllConstant
    /\ Len(layers) = 2
    /\ cells_per_layer = 2
    /\ T_left_C # T_inf_C
    /\ layer_descriptors[1].k_const # layer_descriptors[2].k_const

LayerR(i) ==
    RDiv(RDiv(layers[i].thickness_mm, R(MmPerM)), layer_descriptors[i].k_const)

Sign(a) == IF a[1] > 0 THEN 1 ELSE IF a[1] < 0 THEN -1 ELSE 0

ClosedForm(r) ==
    /\ r.q_W_m2 = RDiv(RSub(T_left_C, T_inf_C),
                       RAdd(RSum([i \in 1..Len(layers) |-> LayerR(i)]), RDiv(R(1), h_W_m2K)))
    /\ Len(r.interface_T_C) = Len(layers) + 1
    /\ r.interface_T_C[1] = T_left_C
    /\ \A i \in 1..Len(layers) :
          r.interface_T_C[i + 1] = RSub(r.interface_T_C[i], RMul(r.q_W_m2, LayerR(i)))
    /\ Sign(r.q_W_m2) = Sign(RSub(T_left_C, T_inf_C))

\* C4: the result of _solve_constant_k for n >= 1 layers with positive
\* conductivities k_i has q = (T_left - T_inf) / (sum_i (L_i/1000)/k_i + 1/h),
\* n + 1 interface temperatures with T_0 = T_left and
\* T_i = T_{i-1} - q * (L_i/1000)/k_i, and q has the sign of T_left - T_inf.
C4_LinearClosedForm == linear_result # None => ClosedForm(linear_result[1])

\* A linear solve of two layers of different conductivity with T_left < T_inf.
C4_Witness ==
    /\ linear_result # None
    /\ Len(layers) = 2
    /\ RLt(T_left_C, T_inf_C)
    /\ layer_descriptors[1].k_const # layer_descriptors[2].k_const

NonIncreasing(s) == \A i \in 1..(Len(s) - 1) : RLe(s[i + 1], s[i])

NonDecreasing(s) == \A i \in 1..(Len(s) - 1) : RLe(s[i], s[i + 1])

Monotone(s) ==
    /\ RLt(T_inf_C, T_left_C) => NonIncreasing(s)
    /\ RLt(T_left_C, T_inf_C) => NonDecreasing(s)

\* C5: if T_left > T_inf every temperature sequence of either solver is
\* non-increasing along position, and if T_left < T_inf non-decreasing: the
\* linear solver's result, the initial profile and every Picard iterate, and
\* the returned interface temperatures and profile.
C5_Monotone ==
    /\ Monotone(T_profile)
    /\ linear_result # None =>
          /\ Monotone(linear_result[1].interface_T_C)
          /\ Monotone(linear_result[1].T_profile_C)
    /\ Returned =>
          /\ Monotone(outcome[1].val.interface_T_C)
          /\ Monotone(outcome[1].val.T_profile_C)

\* A second Picard iterate over four cells, two of them temperature dependent.
C5_Witness ==
    /\ pc = "loop"
    /\ iteration = 2
    /\ Len(T_profile) = 5
    /\ T_left_C # T_inf_C
    /\ \E i \in 1..Len(layers) : layers[i].use_kT /\ Len(layer_descriptors[i].material[1].k_points) > 1

PointTemperatures(material) ==
    {material.k_points[i][1] : i \in 1..Len(material.k_points)}

OutsideSamples(material, T_C) ==
    /\ material.k_points # <<>>
    /\ \/ \A t \in PointTemperatures(material) : RLt(T_C, t)
       \/ \A t \in PointTemperatures(material) : RLt(t, T_C)

\* A pass is about to run with clamp off, and some temperature dependent cell's
\* mean temperature lies outside its material's sample temperatures.
StrictQueryOutside ==
    /\ pc = "loop"
    /\ iteration < max_iter
    /\ ~clamp
    /\ \E idx \in 1..(Len(layer_descriptors) * cells_per_layer) :
          LET cell == Cells(layer_descriptors, cells_per_layer)[idx]
          IN  /\ cell.use_kT
              /\ OutsideSamples(cell.material[1], CellMeanT(T_profile, idx))

\* C7: with clamp = False, a Picard pass in which a temperature dependent
\* cell with sample points is evaluated at a mean temperature below the
\* minimum or above the maximum sample temperature ends the solve with the
\* range error and no result.
C7_StrictRangeError ==
    [][StrictQueryOutside => (pc' = "raised" /\ outcome' = Some(Raise(ErrRange)))]_vars

\* The range error was raised in a pass after the first.
C7_Witness == RaisedWith(ErrRange) /\ ~clamp /\ iteration >= 1

(***************************************************************************)
(* Direct conductivity evaluations, one per call site: interp_k, the       *)
(* solver's per-cell helper, and the initial-guess resolution of a use_kT  *)
(* layer.                                                                  *)
(***************************************************************************)
InterpInit ==
    /\ materials = DefaultMaterials
    /\ projects = DefaultProjects
    /\ orphan_k_points = <<>>
    /\ TabInitial
    /\ layers = <<>>
    /\ T_left_C = Zero
    /\ T_inf_C = Zero
    /\ h_W_m2K = R(1)
    /\ cells_per_layer = 1
    /\ tol = R(1)
    /\ max_iter = 1
    /\ clamp = TRUE
    /\ pc = "idle"
    /\ layer_descriptors = <<>>
    /\ linear_result = None
    /\ T_profile = <<>>
    /\ q = Zero
    /\ x_m = <<>>
    /\ iteration = 0
    /\ diff = None
    /\ outcome = None
    /\ \E m \in TestMaterials, T \in QueryTemperatures, md \in Modes :
          call = [site |-> "none", material |-> m, T_C |-> T, mode |-> md, outcome |-> None]

\* The call record once the evaluation at the given site has ended.
Evaluated(site, result) == [call EXCEPT !.site = site, !.outcome = Some(result)]

\* interp_k(material, T_C, mode=mode)
CallInterpK ==
    /\ call.site = "none"
    /\ call' = Evaluated("interp_k", interp_k(call.material, call.T_C, call.mode))
    /\ UNCHANGED solver

\* _interp_material_k(material, T_C) under clamp = (mode is clamp)
CallInterpMaterialK ==
    /\ call.site = "none"
    /\ call' = Evaluated("_interp_material_k",
                         _interp_material_k(call.material, call.T_C, call.mode = "clamp"))
    /\ UNCHANGED solver

\* Lines 534-539 for a use_kT layer whose material is the given one, at T_mid = T_C.
CallResolveKT ==
    /\ call.site = "none"
    /\ call' = Evaluated("initial_guess",
                         MaterialLayerK(Layer(R(1000), "material", Some(1), TRUE, None),
                                        call.material, call.T_C))
    /\ UNCHANGED solver

InterpNext == CallInterpK \/ CallInterpMaterialK \/ CallResolveKT

InterpSpec == InterpInit /\ [][InterpNext]_vars

(***************************************************************************)
(* Properties of the conductivity evaluations (specification InterpSpec).  *)
(***************************************************************************)
CalledAt(site) == call.site = site /\ call.outcome # None

PointSet(material) == {material.k_points[i] : i \in 1..Len(material.k_points)}

DistinctTemperatures(material) ==
    \A p1, p2 \in PointSet(material) : p1[1] = p2[1] => p1 = p2

Lowest(P) == CHOOSE p \in P : \A r \in P : RLe(p[1], r[1])

Highest(P) == CHOOSE p \in P : \A r \in P : RLe(r[1], p[1])

\* p0 and p1 are neighbours among the sample temperatures of P.
Adjacent(P, p0, p1) ==
    /\ RLt(p0[1], p1[1])
    /\ ~\E r \in P : RLt(p0[1], r[1]) /\ RLt(r[1], p1[1])

Linear(p0, p1, T) ==
    RAdd(p0[2], RMul(RDiv(RSub(T, p0[1]), RSub(p1[1], p0[1])), RSub(p1[2], p0[2])))

\* v is the value at T of the clamped piecewise-linear curve through P.
ClampedReference(P, T, v) ==
    /\ RLe(T, Lowest(P)[1]) => v = Lowest(P)[2]
    /\ RLe(Highest(P)[1], T) => v = Highest(P)[2]
    /\ \A p0, p1 \in P :
          (Adjacent(P, p0, p1) /\ RLe(p0[1], T) /\ RLe(T, p1[1])) => v = Linear(p0, p1, T)

ScenarioB == {<<R(0), Q(3, 100)>>, <<R(100), Q(5, 100)>>}

\* C6: for a material with at least two sample points of distinct
\* temperatures, interp_k in clamp mode returns, for every query T, the value
\* of the clamped piecewise-linear curve through the points: the first
\* point's k at or below the minimum temperature, the last point's k at or
\* above the maximum, k0 + (T-T0)/(T1-T0)*(k1-k0) in a bracketing interval;
\* points (0, 0.03), (100, 0.05) give 0.04 at T = 50 and 0.05 at T = 150; and
\* the result is the same for every order of the points in the material.
C6_ClampEqualsReference ==
    (/\ CalledAt("interp_k")
     /\ call.mode = "clamp"
     /\ Cardinality(PointSet(call.material)) >= 2
     /\ DistinctTemperatures(call.material)) =>
        /\ IsOk(call.outcome[1])
        /\ ClampedReference(PointSet(call.material), call.T_C, call.outcome[1].val)
        /\ (PointSet(call.material) = ScenarioB /\ call.T_C = R(50)) =>
              call.outcome[1].val = Q(4, 100)
        /\ (PointSet(call.material) = ScenarioB /\ call.T_C = R(150)) =>
              call.outcome[1].val = Q(5, 100)
        /\ \A m \in TestMaterials :
              PointSet(m) = PointSet(call.material) =>
                  interp_k(m, call.T_C, "clamp") = call.outcome[1]

\* The points of scenario B listed hottest first, queried at T = 50.
C6_Witness ==
    /\ CalledAt("interp_k")
    /\ call.mode = "clamp"
    /\ call.material.k_points = <<<<R(100), Q(5, 100)>>, <<R(0), Q(3, 100)>>>>
    /\ call.T_C = R(50)
    /\ call.outcome = Some(Ok(Q(4, 100)))

InsideSamples(material, T_C) ==
    /\ material.k_points # <<>>
    /\ RLe(Lowest(PointSet(material))[1], T_C)
    /\ RLe(T_C, Highest(PointSet(material))[1])

\* C8: interp_k called with a mode other than clamp on a material with
\* sample points and a query temperature inside [min(T), max(T)] returns
\* the conductivity that clamp mode returns.
C8_StrictModeInRange ==
    (/\ CalledAt("interp_k")
     /\ call.mode # "clamp"
     /\ InsideSamples(call.material, call.T_C)) =>
        call.outcome[1] = interp_k(call.material, call.T_C, "clamp")

\* C9: for a material with exactly one sample point (T0, k0), every
\* conductivity evaluation returns k0 for every query temperature: interp_k
\* in clamp mode, the initial-guess resolution, and the solver's per-cell
\* evaluation with clamp = True and with clamp = False.
C9_SinglePointEverywhere ==
    (/\ \/ CalledAt("interp_k") /\ call.mode = "clamp"
        \/ CalledAt("initial_guess")
        \/ CalledAt("_interp_material_k")
     /\ Len(call.material.k_points) = 1) =>
        call.outcome[1] = Ok(call.material.k_points[1][2])

NoConductivityErrors == {ErrNoK, ErrNoKT, ErrNoKTInterp}

\* C10: for a material with no sample points, every conductivity
\* evaluation (interp_k in either mode, the initial-guess resolution of a
\* use_kT layer, the solver's per-cell evaluation with clamp = True and with
\* clamp = False) returns the material's k_const when it is defined, and
\* fails with a ValueError about the missing conductivity when it is not.
C10_NoPointsFallback ==
    (call.outcome # None /\ call.material.k_points = <<>>) =>
        IF call.material.k_const # None
        THEN call.outcome[1] = Ok(call.material.k_const[1])
        ELSE ~IsOk(call.outcome[1]) /\ call.outcome[1].exc \in NoConductivityErrors

\* The per-cell evaluation with clamp = False fell back to the constant.
C10_Witness ==
    /\ CalledAt("_interp_material_k")
    /\ call.mode = "strict"
    /\ call.material = Material(Some(R(2)), <<>>)
    /\ call.outcome = Some(Ok(R(2)))

(***************************************************************************)
(* compute_multilayer_layers: the dispatch between the two solvers.  A     *)
(* call either ends in compute_multilayer_layers itself or goes on as a    *)
(* call of solve_multilayer_kT with the default keyword arguments.         *)
(***************************************************************************)
DefaultCellsPerLayer == 25

DefaultTol == Q(1, 1000)

DefaultMaxIter == 200

ComputeCall == [NoCall EXCEPT !.site = "compute_multilayer_layers"]

\* The test of line 423 with all in place of any.
RequiresKTAll(stack) == \A i \in 1..Len(stack) : stack[i].use_kT

\* Line 423.
requires_kT(stack) == \E i \in 1..Len(stack) : stack[i].use_kT

\* Lines 427-445: the constant path, given the collected conductivities.
ConstantPath(k_values) ==
    IF ~IsOk(k_values) THEN k_values
    ELSE _solve_constant_k(layers, k_values.val, T_left_C, T_inf_C, h_W_m2K)

\* A use_kT layer of a stored material with more than one sample point.
Stepped(layer) ==
    /\ layer.use_kT
    /\ layer.mode = "material"
    /\ layer.material_id[1] \in DOMAIN DefaultMaterials
    /\ Len(DefaultMaterials[layer.material_id[1]].k_points) > 1

\* A custom layer whose k_const was set to 0 after its construction.
NonPositiveKinds == {Layer(R(500), "custom", None, FALSE, Some(R(0)))}

\* A constant layer of a material that is not stored.
MissingConstantKinds == {Layer(R(1000), "material", Some(6), FALSE, None)}

\* Custom layers asking for k(T), which Layer's construction accepts with
\* any k_const: none, a positive one, zero.
CustomKTKinds == {Layer(R(500), "custom", None, TRUE, k) : k \in {None, Some(Q(1, 2)), Some(R(0))}}

\* The stacks, the stacks of good layers ending in a non-positive layer or
\* in a constant layer of a missing material, and the stacks with a custom
\* k(T) layer in any position next to a good layer.
DispatchStacks ==
    Stacks \cup {Append(st, l) : st \in {t \in Stacks : Len(t) < MaxLayers /\ \A i \in 1..Len(t) : t[i] \in GoodKinds},
                                 l \in NonPositiveKinds \cup MissingConstantKinds}
           \cup {<<c>> : c \in CustomKTKinds}
           \cup {<<c, g>> : c \in CustomKTKinds, g \in GoodKinds}
           \cup {<<g, c>> : g \in GoodKinds, c \in CustomKTKinds}

\* A call's arguments: the solver's keyword arguments are not yet bound.
\* Stacks with a stepped layer are solved without a temperature difference
\* only: their 25-cell profiles leave the integer range of the arithmetic.
DispatchInit ==
    /\ materials = DefaultMaterials
    /\ projects = DefaultProjects
    /\ orphan_k_points = <<>>
    /\ TabInitial
    /\ layers \in DispatchStacks
    /\ \E b \in BoundaryTemperatures :
          /\ T_left_C = b[1]
          /\ T_inf_C = b[2]
          /\ (\E i \in 1..Len(layers) : Stepped(layers[i])) => b[1] = b[2]
    /\ h_W_m2K \in Coefficients
    /\ cells_per_layer = 0
    /\ tol = Zero
    /\ max_iter = 0
    /\ clamp = TRUE
    /\ pc = "dispatch"
    /\ layer_descriptors = <<>>
    /\ linear_result = None
    /\ T_profile = <<>>
    /\ q = Zero
    /\ x_m = <<>>
    /\ iteration = 0
    /\ diff = None
    /\ outcome = None
    /\ call = ComputeCall

Ended(result) ==
    /\ pc' = IF IsOk(result) THEN "returned" ELSE "raised"
    /\ outcome' = Some(result)
    /\ UNCHANGED <<cells_per_layer, tol, max_iter, clamp>>

\* Line 425: solve_multilayer_kT(layers, T_left_C, T_inf_C, h_W_m2K).
Delegated ==
    /\ pc' = "entry"
    /\ cells_per_layer' = DefaultCellsPerLayer
    /\ tol' = DefaultTol
    /\ max_iter' = DefaultMaxIter
    /\ clamp' = TRUE
    /\ outcome' = None

\* Lines 418-445.
Dispatch ==
    /\ pc = "dispatch"
    /\ IF layers = <<>> THEN Ended(Raise(ErrNoLayers))
       ELSE IF RLe(h_W_m2K, Zero) THEN Ended(Raise(ErrH))
       ELSE IF requires_kT(layers) THEN Delegated
       ELSE \E r \in {ConstantPath(constant_k_values(materials, layers, 1))} : Ended(r)
    /\ UNCHANGED <<materials, orphan_k_points, tab, projects, layers, T_left_C, T_inf_C, h_W_m2K>>
    /\ UNCHANGED <<layer_descriptors, linear_result, T_profile, q, x_m, iteration, diff, call>>

DispatchNext == Dispatch \/ Setup \/ PicardIteration \/ LoopExhausted \/ Return

\* Calls of compute_multilayer_layers, and direct calls of solve_multilayer_kT
\* with a stack of at most one layer.
CallInit == DispatchInit \/ (Init /\ layers \in ShortStacks)

DispatchSpec == CallInit /\ [][DispatchNext]_vars

(***************************************************************************)
(* Properties of the dispatch (specification DispatchSpec).                *)
(***************************************************************************)
ThroughCompute == call.site = "compute_multilayer_layers"

\* The constant conductivity a layer names: its material's or its own.
NamedConstant(layer) ==
    IF layer.mode = "material" THEN materials[layer.material_id[1]].k_const[1]
    ELSE layer.k_const[1]

ConstantsDefined ==
    \A i \in 1..Len(layers) :
        layers[i].mode = "material" =>
            /\ layers[i].material_id[1] \in DOMAIN materials
            /\ materials[layers[i].material_id[1]].k_const # None

LinearOnNamedConstants ==
    _solve_constant_k(layers, [i \in 1..Len(layers) |-> NamedConstant(layers[i])],
                      T_left_C, T_inf_C, h_W_m2K)

NoUseKT == \A i \in 1..Len(layers) : ~layers[i].use_kT

SolverLocalsInitial ==
    /\ layer_descriptors = <<>>
    /\ linear_result = None
    /\ T_profile = <<>>
    /\ iteration = 0
    /\ diff = None
    /\ outcome = None

\* C11: a call of compute_multilayer_layers with a non-empty stack and
\* h > 0: if no layer has use_kT set, the call ends at once, without a
\* Picard pass, and when the layers' constants are defined its result is
\* the linear solver's result for them; if some layer has use_kT set, the
\* call goes on as a call of solve_multilayer_kT on the same layers and
\* boundary conditions with cells_per_layer = 25, tol = 1e-3,
\* max_iter = 200 and clamp on, and these arguments never change after.
C11_Dispatch ==
    [][/\ (pc = "dispatch" /\ layers # <<>> /\ RLt(Zero, h_W_m2K) /\ NoUseKT) =>
             /\ pc' \in {"returned", "raised"}
             /\ iteration' = 0
             /\ T_profile' = <<>>
             /\ ConstantsDefined => outcome' = Some(LinearOnNamedConstants)
       /\ (pc = "dispatch" /\ layers # <<>> /\ RLt(Zero, h_W_m2K) /\ ~NoUseKT) =>
             /\ pc' = "entry"
             /\ SolverLocalsInitial'
             /\ <<materials, layers, T_left_C, T_inf_C, h_W_m2K>>'
                    = <<materials, layers, T_left_C, T_inf_C, h_W_m2K>>
       /\ (ThroughCompute /\ RLt(Zero, h_W_m2K) /\ ~NoUseKT) =>
             /\ cells_per_layer' = DefaultCellsPerLayer
             /\ tol' = DefaultTol
             /\ max_iter' = DefaultMaxIter
             /\ clamp'
       /\ (ThroughCompute /\ NoUseKT) => pc' \in {"returned", "raised"}]_vars

\* A stack of a constant and a temperature dependent layer, solved through
\* compute_multilayer_layers over 2 * 25 cells.
C11_Witness ==
    /\ ThroughCompute
    /\ Returned
    /\ Len(layers) = 2
    /\ ~layers[1].use_kT
    /\ layers[2].use_kT
    /\ Len(T_profile) = 2 * DefaultCellsPerLayer + 1
    /\ T_left_C # T_inf_C

\* The first failing check of lines 418-421, if any.
ComputeValidation ==
    IF layers = <<>> THEN Some(ErrNoLayers)
    ELSE IF RLe(h_W_m2K, Zero) THEN Some(ErrH)
    ELSE None

\* The first failing check of lines 498-509, if any.
SolverValidation ==
    IF layers = <<>> THEN Some(ErrNoLayers)
    ELSE IF RLe(h_W_m2K, Zero) THEN Some(ErrH)
    ELSE IF RLe(tol, Zero) THEN Some(ErrTol)
    ELSE IF max_iter <= 0 THEN Some(ErrMaxIter)
    ELSE IF cells_per_layer <= 0 THEN Some(ErrCells)
    ELSE None

HasNonPositive == \E i \in 1..Len(layers) : layers[i] \in NonPositiveKinds

NothingResolved == layer_descriptors = <<>> /\ linear_result = None /\ T_profile = <<>>

\* C12: a call of compute_multilayer_layers with an empty stack or h <= 0,
\* and a call of solve_multilayer_kT with an empty stack, h <= 0, tol <= 0,
\* max_iter <= 0 or cells_per_layer <= 0, ends at its first step with the
\* validation error of the first failing check, whatever materials the
\* layers name and with no layer resolved; and a call with valid arguments
\* whose stack has a layer of non-positive conductivity ends, once that
\* layer is reached, with the positivity error and no result.
C12_EagerValidation ==
    [][/\ (pc = "dispatch" /\ ComputeValidation # None) =>
             /\ pc' = "raised"
             /\ outcome' = Some(Raise(ComputeValidation[1]))
             /\ NothingResolved'
       /\ (pc = "entry" /\ SolverValidation # None) =>
             /\ pc' = "raised"
             /\ outcome' = Some(Raise(SolverValidation[1]))
             /\ NothingResolved'
       /\ (pc = "dispatch" /\ ComputeValidation = None /\ NoUseKT /\ HasNonPositive) =>
             /\ pc' = "raised"
             /\ outcome' = Some(Raise(ErrKPositive))
       /\ (pc = "entry" /\ SolverValidation = None /\ HasNonPositive) =>
             /\ pc' = "raised"
             /\ outcome' = Some(Raise(ErrKPositiveAll))
             /\ NothingResolved']_vars

\* A direct call of the solver with h = 0 on a layer whose material is not
\* stored ended with the error about h.
C12_Witness ==
    /\ ~ThroughCompute
    /\ RaisedWith(ErrH)
    /\ Len(layers) = 1
    /\ layers[1].mode = "material"
    /\ layers[1].material_id[1] \notin DOMAIN materials

Missing(layer) ==
    layer.mode = "material" /\ layer.material_id[1] \notin DOMAIN materials

NoConstant(layer) ==
    /\ layer.mode = "material"
    /\ layer.material_id[1] \in DOMAIN materials
    /\ ~layer.use_kT
    /\ materials[layer.material_id[1]].k_const = None

NoData(layer) ==
    /\ layer.mode = "material"
    /\ layer.material_id[1] \in DOMAIN materials
    /\ layer.use_kT
    /\ materials[layer.material_id[1]].k_points = <<>>
    /\ materials[layer.material_id[1]].k_const = None

Unresolvable(layer) == Missing(layer) \/ NoConstant(layer) \/ NoData(layer)

ResolutionError(layer) ==
    IF Missing(layer) THEN ErrNotFound
    ELSE IF NoConstant(layer) THEN ErrNoConst
    ELSE ErrNoKT

\* A layer that resolves to a positive conductivity.
Resolvable(layer) ==
    /\ ~Unresolvable(layer)
    /\ layer.mode = "custom" =>
          ~layer.use_kT /\ layer.k_const # None /\ RLt(Zero, layer.k_const[1])

ArgumentsValid ==
    IF ThroughCompute THEN ComputeValidation = None ELSE SolverValidation = None

\* C13: in a call of compute_multilayer_layers or solve_multilayer_kT whose
\* stack has a material layer with a material that is not stored, or with
\* use_kT false and a material without k_const, or with use_kT true and a
\* material with neither points nor k_const, no Picard pass ever runs and
\* no result is returned: the call is before its resolution or has raised;
\* with valid arguments the error is that of the first such layer.
C13_ResolutionErrors ==
    (\E i \in 1..Len(layers) : Unresolvable(layers[i])) =>
        /\ pc \in {"dispatch", "entry", "raised"}
        /\ iteration = 0
        /\ T_profile = <<>>
        /\ pc = "raised" => outcome # None /\ ~IsOk(outcome[1])
        /\ (pc = "raised" /\ ArgumentsValid) =>
              \A i \in 1..Len(layers) :
                  (Unresolvable(layers[i]) /\ \A j \in 1..(i - 1) : Resolvable(layers[j])) =>
                      outcome = Some(Raise(ResolutionError(layers[i])))

\* A call through compute_multilayer_layers whose second layer asks for the
\* constant of a material that is not stored ended with the lookup's error.
C13_Witness ==
    /\ ThroughCompute
    /\ RaisedWith(ErrNotFound)
    /\ Len(layers) = 2
    /\ Resolvable(layers[1])
    /\ Missing(layers[2])
    /\ ~layers[2].use_kT

(***************************************************************************)
(* Layer construction: Layer(...) and _layer_from_dict(data).              *)
(***************************************************************************)

\* __post_init__ without the check of a custom layer's material_id.
PostInitKeepsMaterialId(layer) ==
    IF RLe(layer.thickness_mm, Zero) THEN Raise(ErrThickness)
    ELSE IF layer.mode \notin {"material", "custom"} THEN Raise(ErrMode)
    ELSE IF layer.mode = "material"
    THEN IF layer.material_id = None THEN Raise(ErrMaterialId)
         ELSE IF ~layer.use_kT /\ layer.k_const # None THEN Raise(ErrMaterialKConst)
         ELSE Ok(layer)
    ELSE IF ~layer.use_kT /\ (layer.k_const = None \/ RLe(layer.k_const[1], Zero))
         THEN Raise(ErrCustomKConst)
         ELSE Ok(layer)

\* Lines 45-60: the constructed layer, or the error of the first failing check.
__post_init__(layer) ==
    IF RLe(layer.thickness_mm, Zero) THEN Raise(ErrThickness)
    ELSE IF layer.mode \notin {"material", "custom"} THEN Raise(ErrMode)
    ELSE IF layer.mode = "material"
    THEN IF layer.material_id = None THEN Raise(ErrMaterialId)
         ELSE IF ~layer.use_kT /\ layer.k_const # None THEN Raise(ErrMaterialKConst)
         ELSE Ok(layer)
    ELSE IF layer.material_id # None THEN Raise(ErrCustomMaterialId)
         ELSE IF ~layer.use_kT /\ (layer.k_const = None \/ RLe(layer.k_const[1], Zero))
         THEN Raise(ErrCustomKConst)
         ELSE Ok(layer)

LayerKeys == {"thickness_mm", "mode", "material_id", "use_kT", "k_const"}

\* dict.get(key, default)
Get(data, key, default) == IF key \in DOMAIN data THEN data[key] ELSE default

\* Lines 294-302: data["thickness_mm"] and data["mode"] must be present, the
\* other keys default to None and False; then the constructor runs.
_layer_from_dict(data) ==
    IF "thickness_mm" \notin DOMAIN data \/ "mode" \notin DOMAIN data THEN Raise(ErrKey)
    ELSE __post_init__(Layer(data["thickness_mm"], data["mode"],
                             Get(data, "material_id", None),
                             Get(data, "use_kT", FALSE),
                             Get(data, "k_const", None)))

\* No call of the solver is under way.
Idle ==
    /\ layers = <<>>
    /\ T_left_C = Zero
    /\ T_inf_C = Zero
    /\ h_W_m2K = R(1)
    /\ cells_per_layer = 1
    /\ tol = R(1)
    /\ max_iter = 1
    /\ clamp = TRUE
    /\ pc = "idle"
    /\ layer_descriptors = <<>>
    /\ linear_result = None
    /\ T_profile = <<>>
    /\ q = Zero
    /\ x_m = <<>>
    /\ iteration = 0
    /\ diff = None
    /\ outcome = None

\* The solver is not running and the stores hold their default contents.
SolverIdle ==
    /\ materials = DefaultMaterials
    /\ orphan_k_points = <<>>
    /\ TabInitial
    /\ projects = DefaultProjects
    /\ Idle

Thicknesses == {R(0 - 5), R(0), R(100)}
LayerModes == {"material", "custom", "mixed"}
MaterialIds == {None, Some(1)}
LayerConstants == {None, Some(Q(0 - 1, 2)), Some(R(0)), Some(Q(1, 2))}

\* The keys left out of a dictionary handed to _layer_from_dict.
AbsentKeys == {{}, {"use_kT"}, {"material_id", "k_const"}, {"mode"}, {"thickness_mm"}}

\* The fields a layer is to be built from, and the keys its dictionary lacks.
LayerInit ==
    /\ SolverIdle
    /\ \E t \in Thicknesses, md \in LayerModes, id \in MaterialIds, kT \in BOOLEAN,
          k \in LayerConstants, absent \in AbsentKeys :
          call = [site |-> "none", fields |-> Layer(t, md, id, kT, k), absent |-> absent,
                  outcome |-> None]

\* The dictionary of the call's fields without the absent keys.
LayerData == [key \in LayerKeys \ call.absent |-> call.fields[key]]

\* Layer(thickness_mm, mode, material_id, use_kT, k_const)
ConstructLayer ==
    /\ call.site = "none"
    /\ call' = Evaluated("Layer", __post_init__(call.fields))
    /\ UNCHANGED solver

\* _layer_from_dict(data)
LayerFromDict ==
    /\ call.site = "none"
    /\ call' = Evaluated("_layer_from_dict", _layer_from_dict(LayerData))
    /\ UNCHANGED solver

LayerNext == ConstructLayer \/ LayerFromDict

LayerSpec == LayerInit /\ [][LayerNext]_vars

(***************************************************************************)
(* Properties of Layer construction.                                       *)
(***************************************************************************)

\* A constructor call, direct or from a dictionary, that has ended.
Constructing == call.site \in {"Layer", "_layer_from_dict"}

Constructed == Constructing /\ IsOk(call.outcome[1])

TheLayer == call.outcome[1].val

\* The fields the constructor received: a dictionary's absent optional keys
\* are None and False.
Given ==
    IF call.site = "Layer" THEN call.fields
    ELSE [key \in LayerKeys |->
            IF key \notin call.absent THEN call.fields[key]
            ELSE IF key = "use_kT" THEN FALSE ELSE None]

\* C14: every Layer constructed, directly or from a dictionary, has a
\* thickness above 0 and the mode material or custom; a custom layer has no
\* material_id and a material layer has one.
C14_LayerShape ==
    Constructed =>
        /\ TheLayer.thickness_mm[1] > 0
        /\ TheLayer.mode \in {"material", "custom"}
        /\ TheLayer.mode = "custom" => TheLayer.material_id = None
        /\ TheLayer.mode = "material" => TheLayer.material_id # None

\* A custom layer was built from a dictionary without a material_id key.
C14_Witness ==
    /\ call.site = "_layer_from_dict"
    /\ Constructed
    /\ TheLayer.mode = "custom"
    /\ "material_id" \in call.absent

\* C15: constructing a Layer with mode material, use_kT true and a k_const
\* is rejected.
C15_MaterialKTWithoutConstant ==
    (/\ Constructing
     /\ "mode" \notin call.absent
     /\ Given.mode = "material"
     /\ Given.use_kT
     /\ Given.k_const # None) => ~IsOk(call.outcome[1])

\* C16: every constructed custom Layer has a k_const above 0 and use_kT
\* false; constructing a custom layer with use_kT true, or with k_const
\* missing or not above 0, is rejected.
C16_CustomConstant ==
    /\ (Constructed /\ TheLayer.mode = "custom") =>
          /\ ~TheLayer.use_kT
          /\ TheLayer.k_const # None
          /\ TheLayer.k_const[1][1] > 0
    /\ (/\ Constructing
        /\ "mode" \notin call.absent
        /\ Given.mode = "custom"
        /\ \/ Given.use_kT
           \/ Given.k_const = None
           \/ Given.k_const[1][1] <= 0) => ~IsOk(call.outcome[1])

(***************************************************************************)
(* The material store.  A name is the sequence of its characters; a row of *)
(* the materials table carries its name, its k_const and the rows of       *)
(* material_k_points that belong to it, in the order of their insertion.   *)
(***************************************************************************)

MaxMaterials == 2
MaxStorePoints == 2

Space == " "

RECURSIVE LStrip(_)
LStrip(name) == IF name # <<>> /\ Head(name) = Space THEN LStrip(Tail(name)) ELSE name

RECURSIVE RStrip(_)
RStrip(name) ==
    IF name # <<>> /\ name[Len(name)] = Space THEN RStrip(SubSeq(name, 1, Len(name) - 1))
    ELSE name

\* str.strip()
Strip(name) == RStrip(LStrip(name))

Code(c) == CASE c = " " -> 32 [] c = "a" -> 97 [] c = "b" -> 98

\* ORDER BY name: the comparison of SQLite's BINARY collation.
RECURSIVE NameLt(_, _)
NameLt(a, b) ==
    IF b = <<>> THEN FALSE
    ELSE IF a = <<>> THEN TRUE
    ELSE IF Head(a) = Head(b) THEN NameLt(Tail(a), Tail(b))
    ELSE Code(Head(a)) < Code(Head(b))

MaterialRow(name, kc, pts) == [name |-> name, k_const |-> kc, k_points |-> pts]

EmptyStore == [i \in {} |-> None]

Put(store, key, row) == [i \in DOMAIN store \cup {key} |-> IF i = key THEN row ELSE store[i]]

Remove(store, key) == [i \in DOMAIN store \ {key} |-> store[i]]

\* cursor.lastrowid of an INTEGER PRIMARY KEY: one above the largest id.
NextId(store) ==
    IF DOMAIN store = {} THEN 1
    ELSE (CHOOSE i \in DOMAIN store : \A j \in DOMAIN store : j <= i) + 1

\* The store after an operation, and what the operation answered.
Done(store, result) == [store |-> store, result |-> result]

NameTaken(store, name, except) ==
    \E i \in DOMAIN store \ except : store[i].name = name

\* Lines 137-151.
create_material(store, name, k_const) ==
    IF name = <<>> \/ Strip(name) = <<>> THEN Done(store, Raise(ErrMaterialName))
    ELSE IF k_const # None /\ RLe(k_const[1], Zero) THEN Done(store, Raise(ErrKConstPositive))
    ELSE IF NameTaken(store, Strip(name), {}) THEN Done(store, Raise(ErrIntegrity))
    ELSE Done(Put(store, NextId(store), MaterialRow(Strip(name), k_const, <<>>)),
              Ok(NextId(store)))

\* Lines 154-189, notes left None.
update_material(store, material_id, name, k_const) ==
    IF name # None /\ Strip(name[1]) = <<>> THEN Done(store, Raise(ErrMaterialName))
    ELSE IF k_const # None /\ RLe(k_const[1], Zero) THEN Done(store, Raise(ErrKConstPositive))
    ELSE IF name = None /\ k_const = None THEN Done(store, Ok(FALSE))
    ELSE IF material_id \notin DOMAIN store THEN Done(store, Ok(FALSE))
    ELSE IF name # None /\ NameTaken(store, Strip(name[1]), {material_id})
    THEN Done(store, Raise(ErrIntegrity))
    ELSE Done(Put(store, material_id,
                  MaterialRow(IF name = None THEN store[material_id].name ELSE Strip(name[1]),
                              IF k_const = None THEN store[material_id].k_const ELSE k_const,
                              store[material_id].k_points)),
              Ok(TRUE))

\* Lines 192-197: the points go with the material (ON DELETE CASCADE).
delete_material(store, material_id) ==
    IF material_id \in DOMAIN store THEN Done(Remove(store, material_id), Ok(TRUE))
    ELSE Done(store, Ok(FALSE))

\* The point rows of a deleted material with the foreign keys not enforced:
\* the rows stay in table material_k_points.
RowsLeftBehind(orphans, material_id, points) ==
    IF points = <<>> THEN orphans ELSE Put(orphans, material_id, points)

\* Lines 103-109, 128: material_k_points references materials ON DELETE
\* CASCADE and every connection enforces the foreign keys, so the point
\* rows of a deleted material are deleted with it and none is left over.
DeletedRows(orphans, material_id, points) == orphans

\* The join of lines 200-211 for a new row of materials: point rows that
\* already carry the new id are read as the new material's points.
Joining(store, orphans, material_id) ==
    IF material_id \in DOMAIN orphans
    THEN Put(store, material_id,
             MaterialRow(store[material_id].name, store[material_id].k_const,
                         orphans[material_id]))
    ELSE store

\* The loop of upsert_k_points without the check of the conductivity.
RECURSIVE CleanAnyK(_, _, _)
CleanAnyK(sorted, i, seen) ==
    IF i > Len(sorted) THEN Ok(sorted)
    ELSE IF sorted[i][1] \in seen THEN Raise(ErrDuplicate)
    ELSE CleanAnyK(sorted, i + 1, seen \cup {sorted[i][1]})

\* Lines 258-264: the loop over the sorted points.
RECURSIVE Clean(_, _, _)
Clean(sorted, i, seen) ==
    IF i > Len(sorted) THEN Ok(sorted)
    ELSE IF RLe(sorted[i][2], Zero) THEN Raise(ErrKValues)
    ELSE IF sorted[i][1] \in seen THEN Raise(ErrDuplicate)
    ELSE Clean(sorted, i + 1, seen \cup {sorted[i][1]})

\* UNIQUE(material_id, T_C)
UniqueT(rows) == \A i, j \in 1..Len(rows) : i # j => rows[i][1] # rows[j][1]

\* Lines 266-275 for the cleaned points.
ReplacePoints(store, material_id, cleaned) ==
    IF ~IsOk(cleaned) THEN Done(store, cleaned)
    ELSE IF ~IsOk(get_material(store, material_id)) THEN Done(store, get_material(store, material_id))
    ELSE IF ~UniqueT(cleaned.val) THEN Done(store, Raise(ErrIntegrity))
    ELSE Done(Put(store, material_id,
                  MaterialRow(store[material_id].name, store[material_id].k_const, cleaned.val)),
              Ok(None))

\* Lines 252-275.
upsert_k_points(store, material_id, points) ==
    ReplacePoints(store, material_id, Clean(SortedPoints(points), 1, {}))

FirstByName(store, ids) ==
    CHOOSE i \in ids : \A j \in ids \ {i} : NameLt(store[i].name, store[j].name)

\* The ids of the store in the order of their names.
RECURSIVE ByName(_, _)
ByName(store, ids) ==
    IF ids = {} THEN <<>>
    ELSE <<FirstByName(store, ids)>> \o ByName(store, ids \ {FirstByName(store, ids)})

\* Lines 214-233.
list_materials(store) ==
    [n \in 1..Len(ByName(store, DOMAIN store)) |->
        get_material(store, ByName(store, DOMAIN store)[n]).val]

MaterialNames == {<<>>, <<" ">>, <<"a">>, <<" ", "a">>, <<"b">>}
StoreConstants == {None, Some(R(0)), Some(R(2))}
StorePointPool == {<<R(0), R(1)>>, <<R(50), R(3)>>, <<R(50), R(0)>>}
StorePointLists == UNION {[1..n -> StorePointPool] : n \in 0..MaxStorePoints}
StoreIds == 1..MaxMaterials

\* update_material's name: None keeps the name.
NewNames == {None, Some(<<" ">>), Some(<<" ", "a">>), Some(<<"b">>)}

MaterialStoreInit ==
    /\ materials = EmptyStore
    /\ projects = DefaultProjects
    /\ orphan_k_points = <<>>
    /\ TabInitial
    /\ Idle
    /\ call = [site |-> "none", arguments |-> <<>>, outcome |-> None]

\* The record of a call that has ended; of the arguments, the points handed
\* to upsert_k_points are kept.
Called(site, arguments, result) ==
    [site |-> site, arguments |-> arguments, outcome |-> Some(result)]

\* What the stores' operations leave alone, besides the other store.
SolverUnchanged ==
    /\ UNCHANGED <<layers, T_left_C, T_inf_C, h_W_m2K, cells_per_layer, tol, max_iter, clamp>>
    /\ UNCHANGED <<pc, layer_descriptors, linear_result, T_profile, q, x_m, iteration, diff, outcome>>

CreateMaterial ==
    \E name \in MaterialNames, k \in StoreConstants :
        /\ NextId(materials) <= MaxMaterials
        /\ \E done \in {create_material(materials, name, k)} :
              /\ materials' = IF IsOk(done.result)
                              THEN Joining(done.store, orphan_k_points, done.result.val)
                              ELSE done.store
              /\ orphan_k_points' = IF IsOk(done.result)
                                    THEN Remove(orphan_k_points, done.result.val)
                                    ELSE orphan_k_points
              /\ call' = Called("create_material", <<>>, done.result)
        /\ UNCHANGED <<tab, projects>>
        /\ SolverUnchanged

\* update_material with a new name, with a k_const the check rejects, or both.
UpdateMaterial ==
    \E id \in StoreIds, name \in NewNames, k \in {None, Some(R(0))} :
        /\ \E done \in {update_material(materials, id, name, k)} :
              /\ materials' = done.store
              /\ call' = Called("update_material", <<>>, done.result)
        /\ UNCHANGED <<orphan_k_points, tab, projects>>
        /\ SolverUnchanged

DeleteMaterial ==
    \E id \in StoreIds :
        /\ \E done \in {delete_material(materials, id)} :
              /\ materials' = done.store
              /\ call' = Called("delete_material", <<>>, done.result)
        /\ orphan_k_points' = IF id \in DOMAIN materials
                              THEN DeletedRows(orphan_k_points, id, materials[id].k_points)
                              ELSE orphan_k_points
        /\ UNCHANGED <<tab, projects>>
        /\ SolverUnchanged

UpsertKPoints ==
    \E id \in (DOMAIN materials \cup {NextId(materials)}) \cap StoreIds, points \in StorePointLists :
        /\ \E done \in {upsert_k_points(materials, id, points)} :
              /\ materials' = done.store
              /\ call' = Called("upsert_k_points", points, done.result)
        /\ UNCHANGED <<orphan_k_points, tab, projects>>
        /\ SolverUnchanged

MaterialStoreNext == CreateMaterial \/ UpdateMaterial \/ DeleteMaterial \/ UpsertKPoints

MaterialStoreSpec == MaterialStoreInit /\ [][MaterialStoreNext]_vars

(***************************************************************************)
(* Properties of the material store.                                       *)
(***************************************************************************)

StrictlyIncreasing(points) ==
    \A i \in 1..(Len(points) - 1) : RLt(points[i][1], points[i + 1][1])

AllPositive(points) == \A i \in 1..Len(points) : RLt(Zero, points[i][2])

WellFormed(points) == StrictlyIncreasing(points) /\ AllPositive(points)

DuplicateTemperature(points) ==
    \E i, j \in 1..Len(points) : i # j /\ points[i][1] = points[j][1]

NonPositiveConductivity(points) == \E i \in 1..Len(points) : RLe(points[i][2], Zero)

\* C17: in every state of the material store reached by create_material,
\* update_material, upsert_k_points and delete_material calls, the points
\* get_material returns for each stored material and those of each entry of
\* list_materials, which lists every stored material, are sorted by strictly
\* increasing temperature with conductivities above 0; and an
\* upsert_k_points call whose input has a duplicate temperature or a
\* conductivity not above 0 has raised.
C17_MaterialStorePoints ==
    /\ \A id \in DOMAIN materials :
          /\ IsOk(get_material(materials, id))
          /\ WellFormed(get_material(materials, id).val.k_points)
    /\ Len(list_materials(materials)) = Cardinality(DOMAIN materials)
    /\ \A n \in 1..Len(list_materials(materials)) :
          WellFormed(list_materials(materials)[n].k_points)
    /\ (/\ call.site = "upsert_k_points"
        /\ \/ DuplicateTemperature(call.arguments)
           \/ NonPositiveConductivity(call.arguments)) => ~IsOk(call.outcome[1])

\* Two points handed over in descending order were stored for a material.
C17_Witness ==
    /\ call.site = "upsert_k_points"
    /\ IsOk(call.outcome[1])
    /\ Len(call.arguments) = 2
    /\ RLt(call.arguments[2][1], call.arguments[1][1])
    /\ \E id \in DOMAIN materials :
          get_material(materials, id).val.k_points = <<call.arguments[2], call.arguments[1]>>

(***************************************************************************)
(* The project store: the rows of table projects by their name column.     *)
(***************************************************************************)

Project(name, stack, left, inf, h) ==
    [name |-> name, layers |-> stack, T_left_C |-> left, T_inf_C |-> inf, h_W_m2K |-> h]

\* Lines 283-291, the note left out.
_layer_to_dict(layer) == [key \in LayerKeys |-> layer[key]]

\* json.dumps([_layer_to_dict(layer) for layer in project.layers])
LayersJson(stack) == [i \in 1..Len(stack) |-> _layer_to_dict(stack[i])]

\* [_layer_from_dict(layer_dict) for layer_dict in layers_data]
RECURSIVE LayersFromJson(_, _)
LayersFromJson(layers_data, i) ==
    IF i > Len(layers_data) THEN Ok(<<>>)
    ELSE Chain(_layer_from_dict(layers_data[i]), LayersFromJson(layers_data, i + 1))

ProjectRow(project) ==
    [layers_json |-> LayersJson(project.layers), T_left_C |-> project.T_left_C,
     T_inf_C |-> project.T_inf_C, h_W_m2K |-> project.h_W_m2K]

\* Lines 305-335: INSERT ... ON CONFLICT(name) DO UPDATE under the stripped name.
save_project(store, project) ==
    IF project.name = <<>> \/ Strip(project.name) = <<>> THEN Done(store, Raise(ErrProjectName))
    ELSE IF project.layers = <<>> THEN Done(store, Raise(ErrProjectLayers))
    ELSE IF RLe(project.h_W_m2K, Zero) THEN Done(store, Raise(ErrH))
    ELSE Done(Put(store, Strip(project.name), ProjectRow(project)), Ok(None))

\* Lines 352-359 for the row found.
LoadedProject(name, row, stack) ==
    IF ~IsOk(stack) THEN stack
    ELSE Ok(Project(name, stack.val, row.T_left_C, row.T_inf_C, row.h_W_m2K))

\* Lines 338-359: WHERE name = ? with the name as given.
load_project(store, name) ==
    IF name \notin DOMAIN store THEN Raise(ErrProjectNotFound)
    ELSE LoadedProject(name, store[name], LayersFromJson(store[name].layers_json, 1))

\* Lines 362-365.
delete_project(store, name) ==
    IF name \in DOMAIN store THEN Done(Remove(store, name), Ok(TRUE))
    ELSE Done(store, Ok(FALSE))

FirstName(names) == CHOOSE n \in names : \A o \in names \ {n} : NameLt(n, o)

\* ORDER BY name
RECURSIVE SortedNames(_)
SortedNames(names) ==
    IF names = {} THEN <<>>
    ELSE <<FirstName(names)>> \o SortedNames(names \ {FirstName(names)})

\* Lines 368-371.
get_all_project_names(store) == SortedNames(DOMAIN store)

ProjectNames == {<<>>, <<" ">>, <<"a">>, <<" ", "a">>, <<"b">>}

ProjectStacks ==
    {<<>>,
     <<Layer(R(500), "custom", None, FALSE, Some(Q(1, 2)))>>,
     <<Layer(R(1000), "material", Some(1), TRUE, None),
       Layer(R(500), "custom", None, FALSE, Some(Q(1, 2)))>>}

ProjectInputs ==
    {Project(name, stack, R(100), R(0), h) :
        name \in ProjectNames, stack \in ProjectStacks, h \in Coefficients}

ProjectStoreInit ==
    /\ materials = DefaultMaterials
    /\ projects = EmptyStore
    /\ orphan_k_points = <<>>
    /\ TabInitial
    /\ Idle
    /\ call = [site |-> "none", arguments |-> <<>>, outcome |-> None]

SaveProject ==
    \E project \in ProjectInputs :
        /\ \E done \in {save_project(projects, project)} :
              /\ projects' = done.store
              /\ call' = Called("save_project", project, done.result)
        /\ UNCHANGED <<materials, orphan_k_points, tab>>
        /\ SolverUnchanged

LoadProject ==
    \E name \in ProjectNames :
        /\ call' = Called("load_project", name, load_project(projects, name))
        /\ UNCHANGED <<materials, orphan_k_points, tab, projects>>
        /\ SolverUnchanged

DeleteProject ==
    \E name \in ProjectNames :
        /\ \E done \in {delete_project(projects, name)} :
              /\ projects' = done.store
              /\ call' = Called("delete_project", name, done.result)
        /\ UNCHANGED <<materials, orphan_k_points, tab>>
        /\ SolverUnchanged

GetAllProjectNames ==
    /\ call' = Called("get_all_project_names", <<>>, Ok(get_all_project_names(projects)))
    /\ UNCHANGED <<materials, orphan_k_points, tab, projects>>
    /\ SolverUnchanged

ProjectStoreNext == SaveProject \/ LoadProject \/ DeleteProject \/ GetAllProjectNames

ProjectStoreSpec == ProjectStoreInit /\ [][ProjectStoreNext]_vars

(***************************************************************************)
(* Properties of the project store.                                        *)
(***************************************************************************)

\* load_project(name) answers the layers and boundary conditions of the project.
LoadsAs(store, name, project) ==
    /\ IsOk(load_project(store, name))
    /\ load_project(store, name).val.layers = project.layers
    /\ load_project(store, name).val.T_left_C = project.T_left_C
    /\ load_project(store, name).val.T_inf_C = project.T_inf_C
    /\ load_project(store, name).val.h_W_m2K = project.h_W_m2K

NotFound(store, name) == load_project(store, name) = Raise(ErrProjectNotFound)

ListedOnceSorted(names, store) ==
    /\ \A i, j \in 1..Len(names) : i < j => (names[i] # names[j] /\ NameLt(names[i], names[j]))
    /\ {names[i] : i \in 1..Len(names)} = DOMAIN store

RejectedSave ==
    \/ Strip(call'.arguments.name) = <<>>
    \/ call'.arguments.layers = <<>>
    \/ RLe(call'.arguments.h_W_m2K, Zero)

\* C18: the project store is a map keyed by name.  The names listed are the
\* stored names, each once, in order.  A save_project rejected by
\* validation (empty name, no layers, h <= 0) raises and leaves the store
\* unchanged; after any other save, load_project of the saved name answers
\* the saved layers and boundary conditions; after delete_project of a name,
\* load_project of it fails with not-found; and a call about one name
\* leaves what load_project answers for every other name as it was, so a
\* name loads its most recent save, or not-found when never saved or
\* deleted since.
C18_ProjectStoreIsMap ==
    [][/\ ListedOnceSorted(get_all_project_names(projects'), projects')
       /\ call'.site = "save_project" =>
             IF RejectedSave
             THEN ~IsOk(call'.outcome[1]) /\ projects' = projects
             ELSE /\ IsOk(call'.outcome[1])
                  /\ LoadsAs(projects', call'.arguments.name, call'.arguments)
                  /\ \A other \in ProjectNames \ {call'.arguments.name} :
                        load_project(projects', other) = load_project(projects, other)
       /\ call'.site = "delete_project" =>
             /\ NotFound(projects', call'.arguments)
             /\ \A other \in ProjectNames \ {call'.arguments} :
                   load_project(projects', other) = load_project(projects, other)
       /\ call'.site \in {"load_project", "get_all_project_names"} =>
             projects' = projects]_vars

(***************************************************************************)
(* Invocation after invocation: when a call has ended, the next one starts *)
(* with its own arguments, possibly after a material was deleted.          *)
(***************************************************************************)

RepeatStacks ==
    {<<Layer(R(1000), "material", Some(1), TRUE, None)>>,
     <<Layer(R(1000), "material", Some(2), TRUE, None)>>,
     <<Layer(R(500), "custom", None, FALSE, Some(Q(1, 2)))>>,
     <<Layer(R(1000), "material", Some(1), TRUE, None),
       Layer(R(500), "custom", None, FALSE, Some(Q(1, 2)))>>}

RepeatTemperatures == {<<R(100), R(0)>>, <<R(50), R(50)>>}

\* The arguments of a direct call of the solver.
SolverArguments ==
    {[site |-> "solve_multilayer_kT", layers |-> st, T_left_C |-> b[1], T_inf_C |-> b[2],
      h_W_m2K |-> R(1), cells_per_layer |-> MaxCells, tol |-> DefaultTol, max_iter |-> n,
      clamp |-> TRUE] :
        st \in RepeatStacks, b \in RepeatTemperatures, n \in {1, MaxIter}}

\* The arguments of a call of compute_multilayer_layers: the solver's
\* keyword arguments are not yet bound.
ComputeArguments ==
    {a \in {[site |-> "compute_multilayer_layers", layers |-> st, T_left_C |-> b[1],
             T_inf_C |-> b[2], h_W_m2K |-> R(1), cells_per_layer |-> 0, tol |-> Zero,
             max_iter |-> 0, clamp |-> TRUE] :
               st \in RepeatStacks, b \in RepeatTemperatures} :
        (\E i \in 1..Len(a.layers) : Stepped(a.layers[i])) => a.T_left_C = a.T_inf_C}

RepeatArguments == SolverArguments \cup ComputeArguments

\* The call begins with the given arguments.
Bound(a) ==
    /\ layers = a.layers
    /\ T_left_C = a.T_left_C
    /\ T_inf_C = a.T_inf_C
    /\ h_W_m2K = a.h_W_m2K
    /\ cells_per_layer = a.cells_per_layer
    /\ tol = a.tol
    /\ max_iter = a.max_iter
    /\ clamp = a.clamp
    /\ pc = IF a.site = "compute_multilayer_layers" THEN "dispatch" ELSE "entry"

\* The next call begins with the given arguments.
Binds(a) ==
    /\ layers' = a.layers
    /\ T_left_C' = a.T_left_C
    /\ T_inf_C' = a.T_inf_C
    /\ h_W_m2K' = a.h_W_m2K
    /\ cells_per_layer' = a.cells_per_layer
    /\ tol' = a.tol
    /\ max_iter' = a.max_iter
    /\ clamp' = a.clamp
    /\ pc' = IF a.site = "compute_multilayer_layers" THEN "dispatch" ELSE "entry"

\* A frame that keeps the locals of the call before.
StaleFrame ==
    /\ outcome' = None
    /\ UNCHANGED <<layer_descriptors, linear_result, T_profile, q, x_m, iteration, diff>>

\* The locals of a new frame.
FreshFrame ==
    /\ layer_descriptors' = <<>>
    /\ linear_result' = None
    /\ T_profile' = <<>>
    /\ q' = Zero
    /\ x_m' = <<>>
    /\ iteration' = 0
    /\ diff' = None
    /\ outcome' = None

RepeatInit ==
    /\ materials = DefaultMaterials
    /\ projects = DefaultProjects
    /\ orphan_k_points = <<>>
    /\ TabInitial
    /\ \E a \in RepeatArguments :
          /\ Bound(a)
          /\ call = [site |-> a.site, first |-> None]
    /\ layer_descriptors = <<>>
    /\ linear_result = None
    /\ T_profile = <<>>
    /\ q = Zero
    /\ x_m = <<>>
    /\ iteration = 0
    /\ diff = None
    /\ outcome = None

\* The call that has ended: where it entered, the stores and arguments it
\* ran on, how it ended.
Ran == [site |-> call.site, args |-> args, outcome |-> outcome]

\* The next invocation; material 1 may have been deleted in between.  The
\* first call that ended is kept for comparison.
Reinvoke ==
    /\ pc \in {"returned", "raised"}
    /\ \E a \in RepeatArguments :
          /\ Binds(a)
          /\ call' = [site |-> a.site,
                      first |-> IF call.first = None THEN Some(Ran) ELSE call.first]
    /\ materials' \in {materials, delete_material(materials, 1).store}
    /\ FreshFrame
    /\ UNCHANGED <<orphan_k_points, tab, projects>>

RepeatNext == Dispatch \/ Setup \/ PicardIteration \/ LoopExhausted \/ Return \/ Reinvoke

RepeatSpec == RepeatInit /\ [][RepeatNext]_vars

(***************************************************************************)
(* Properties of repeated invocations.                                     *)
(***************************************************************************)

Solving == pc \in {"dispatch", "entry", "loop", "converged"}

SameAsFirst ==
    /\ Final
    /\ call.first # None
    /\ call.first[1].site = call.site
    /\ call.first[1].args = args

RampMaterials ==
    DefaultMaterials @@
    (7 :> Material(None, <<<<Q(749, 10), R(1)>>, <<Q(769, 10), R(3)>>>>))

RampStacks ==
    {<<Layer(R(1000), "material", Some(7), TRUE, None)>>,
     <<Layer(R(1000), "material", Some(7), TRUE, None),
       Layer(R(500), "custom", None, FALSE, Some(Q(1, 2)))>>,
     <<Layer(R(1000), "material", Some(2), TRUE, None)>>}

RampInit ==
    /\ materials = RampMaterials
    /\ projects = DefaultProjects
    /\ orphan_k_points = <<>>
    /\ TabInitial
    /\ layers \in RampStacks
    /\ \E b \in BoundaryTemperatures : T_left_C = b[1] /\ T_inf_C = b[2]
    /\ h_W_m2K = R(1)
    /\ cells_per_layer \in {1, MaxCells}
    /\ tol \in Tolerances \ {Zero}
    /\ max_iter \in {1, MaxIter}
    /\ clamp \in BOOLEAN
    /\ pc = "entry"
    /\ layer_descriptors = <<>>
    /\ linear_result = None
    /\ T_profile = <<>>
    /\ q = Zero
    /\ x_m = <<>>
    /\ iteration = 0
    /\ diff = None
    /\ outcome = None
    /\ call = NoCall

RampSpec == RampInit /\ [][Next]_vars

(***************************************************************************)
(* Properties of the converged profile.                                    *)
(***************************************************************************)

\* The loop body of lines 611-636 run once more on the returned profile.
OneMorePass ==
    PicardPass(Cells(layer_descriptors, cells_per_layer), T_profile,
               T_left_C, T_inf_C, h_W_m2K, clamp)

\* C20: when solve_multilayer_kT has returned a profile, one more Picard
\* pass from that profile succeeds and moves every boundary temperature,
\* and the flux, by less than tol.
C20_ConvergenceIdempotence ==
    Returned =>
        /\ IsOk(OneMorePass)
        /\ Len(OneMorePass.val.T_new) = Len(T_profile)
        /\ \A i \in 1..Len(T_profile) :
              RLt(RAbs(RSub(OneMorePass.val.T_new[i], T_profile[i])), tol)
        /\ RLt(RAbs(RSub(OneMorePass.val.q_new, q)), tol)
(***************************************************************************)
(* The shape of the profile and its projection to the layer interfaces.    *)
(***************************************************************************)
\* The solver holds a profile: it is in the loop, has left it, or has returned.
HoldsProfile == pc \in {"loop", "converged", "returned"}

\* The number of grid nodes of a stack of n layers.
Nodes(n, cells) == n * cells + 1

\* interface[i] = profile[i * cells_per_layer] for i in 0..n, counted from 0.
Projects(interface, profile, n, cells) ==
    /\ Len(interface) = n + 1
    /\ \A i \in 0..n : interface[i + 1] = profile[i * cells + 1]

\* C21: for a stack of n layers every Picard iterate, the initial one
\* included, has n * cells_per_layer + 1 entries and starts with T_left, and
\* so does x_m in length; a result carries that profile and x_m, and its
\* interface_T_C has n + 1 entries with interface_T_C[i] =
\* T_profile_C[i * cells_per_layer] for every i in 0..n, entry 0 of both
\* being T_left.
C21_ResultProjection ==
    /\ HoldsProfile =>
          /\ Len(T_profile) = Nodes(Len(layers), cells_per_layer)
          /\ Len(x_m) = Nodes(Len(layers), cells_per_layer)
          /\ T_profile[1] = T_left_C
    /\ Returned =>
          /\ Len(outcome[1].val.T_profile_C) = Nodes(Len(layers), cells_per_layer)
          /\ Len(outcome[1].val.x_m) = Nodes(Len(layers), cells_per_layer)
          /\ Projects(outcome[1].val.interface_T_C, outcome[1].val.T_profile_C,
                      Len(layers), cells_per_layer)
          /\ outcome[1].val.interface_T_C[1] = T_left_C
          /\ outcome[1].val.T_profile_C[1] = T_left_C

\* A result for two layers of two cells each whose profile is not flat.
C21_Witness ==
    /\ Returned
    /\ Len(layers) = 2
    /\ cells_per_layer = 2
    /\ Len(outcome[1].val.T_profile_C) = 5
    /\ outcome[1].val.interface_T_C[2] = outcome[1].val.T_profile_C[3]
    /\ outcome[1].val.interface_T_C[2] # outcome[1].val.T_profile_C[2]

(***************************************************************************)
(* Custom layers asking for k(T) (specification DispatchSpec).             *)
(***************************************************************************)
CustomKT(layer) == layer.mode = "custom" /\ layer.use_kT

HasCustomKT == \E i \in 1..Len(layers) : CustomKT(layers[i])

\* C22: a call whose stack contains a custom layer with use_kT set, a
\* layer that Layer's construction accepts, whatever its k_const is: a call
\* of compute_multilayer_layers with layers and h > 0 goes on as a call of
\* solve_multilayer_kT and never takes the constant path; no step reaches
\* the Picard loop or a result, the call ends with an error only, and when
\* the scalar arguments are valid and the custom layer is the first layer,
\* the error is the custom-layer error.
C22_CustomLayerNoKT ==
    [][HasCustomKT =>
          /\ \A i \in 1..Len(layers) : CustomKT(layers[i]) => IsOk(__post_init__(layers[i]))
          /\ (pc = "dispatch" /\ RLt(Zero, h_W_m2K)) => pc' = "entry"
          /\ pc = "dispatch" => outcome' \in {None, Some(Raise(ErrH))}
          /\ pc' \notin {"loop", "converged", "returned"}
          /\ pc = "entry" =>
                /\ pc' = "raised"
                /\ outcome' # None
                /\ ~IsOk(outcome'[1])
                /\ (ScalarsValid /\ CustomKT(layers[1])) =>
                       outcome' = Some(Raise(ErrCustomKT))]_vars

\* A call of compute_multilayer_layers on a custom k(T) layer with a positive
\* k_const in front of a constant layer has ended with the custom-layer error
\* raised by solve_multilayer_kT.
C22_Witness ==
    /\ ThroughCompute
    /\ Len(layers) = 2
    /\ CustomKT(layers[1])
    /\ layers[1].k_const = Some(Q(1, 2))
    /\ ~layers[2].use_kT
    /\ cells_per_layer = DefaultCellsPerLayer
    /\ RaisedWith(ErrCustomKT)

(***************************************************************************)
(* The initial guess of solve_multilayer_kT (specification Spec).          *)
(***************************************************************************)
\* The solver stands before its first pass.
BeforeFirstPass == pc = "loop" /\ iteration = 0

MeanBoundaryT == RDiv(RAdd(T_left_C, T_inf_C), R(2))

\* The conductivity the guess uses for a layer: a use_kT layer's material
\* evaluated at the mean boundary temperature, any other layer's constant.
GuessK(layer) ==
    IF layer.use_kT THEN interp_k(materials[layer.material_id[1]], MeanBoundaryT, "clamp").val
    ELSE IF layer.mode = "material" THEN materials[layer.material_id[1]].k_const[1]
    ELSE layer.k_const[1]

GuessLinearResult ==
    _solve_constant_k(layers, [i \in 1..Len(layers) |-> GuessK(layers[i])],
                      T_left_C, T_inf_C, h_W_m2K)

\* Node j of layer i (both counted from 0) lies j / cells_per_layer of the
\* way from the layer's left interface temperature to its right one.
EquallySubdivided(profile, interface, n, cells) ==
    \A i \in 0..(n - 1) : \A j \in 0..cells :
        profile[i * cells + j + 1] =
            RSub(interface[i + 1],
                 RMul(Q(j, cells), RSub(interface[i + 1], interface[i + 2])))

GuessIs(linear) ==
    /\ IsOk(linear)
    /\ linear_result = Some(linear.val)
    /\ q = linear.val.q_W_m2
    /\ \A i \in 0..Len(layers) :
          T_profile[i * cells_per_layer + 1] = linear.val.interface_T_C[i + 1]
    /\ EquallySubdivided(T_profile, linear.val.interface_T_C, Len(layers), cells_per_layer)

\* C23: before the first Picard pass the flux and the profile are those of
\* _solve_constant_k with every use_kT layer's conductivity evaluated at
\* (T_left + T_inf) / 2 and every other layer at its constant: the profile
\* at index i * cells_per_layer is that solution's i-th interface
\* temperature, and each layer's drop is divided equally over its cells.
C23_InitialGuess == BeforeFirstPass => GuessIs(GuessLinearResult)

\* Before the first pass of a stack of a k(T) layer of material 2, whose
\* conductivity at the mean temperature 50 is 2, and a constant layer, two
\* cells each, with a temperature difference.
C23_Witness ==
    /\ BeforeFirstPass
    /\ Len(layers) = 2
    /\ cells_per_layer = 2
    /\ layers[1].use_kT
    /\ layers[1].material_id = Some(2)
    /\ GuessK(layers[1]) = R(2)
    /\ ~layers[2].use_kT
    /\ T_left_C # T_inf_C
    /\ T_profile[2] # T_profile[1]

(***************************************************************************)
(* Deleting a material (specification MaterialStoreSpec).                  *)
(***************************************************************************)
NotFoundMaterial(store, material_id) == get_material(store, material_id) = Raise(ErrNotFound)

PointsOf(store, material_id) == get_material(store, material_id).val.k_points

\* C24: after any sequence of create_material, update_material,
\* upsert_k_points and delete_material calls every row of
\* material_k_points belongs to a row of materials; a delete_material call
\* that returned True removed one material, and get_material fails with
\* not-found for its id; a material that create_material has just created,
\* whatever id it received, has no sample points; and the sample points of
\* a stored material change by an upsert_k_points call only.
C24_DeleteCascades ==
    [][/\ DOMAIN orphan_k_points' = {}
       /\ (call'.site = "delete_material" /\ call'.outcome = Some(Ok(TRUE))) =>
             \E id \in DOMAIN materials :
                 /\ materials' = Remove(materials, id)
                 /\ NotFoundMaterial(materials', id)
       /\ (call'.site = "create_material" /\ IsOk(call'.outcome[1])) =>
             /\ call'.outcome[1].val \in DOMAIN materials' \ DOMAIN materials
             /\ PointsOf(materials', call'.outcome[1].val) = <<>>
       /\ \A id \in DOMAIN materials \cap DOMAIN materials' :
             PointsOf(materials', id) # PointsOf(materials, id) =>
                 call'.site = "upsert_k_points"]_vars

\* delete_material has returned True for material 2, which is not found
\* any more, while material 1 keeps its sample points and no point row is
\* left without a material.
C24_Witness ==
    /\ call.site = "delete_material"
    /\ call.outcome = Some(Ok(TRUE))
    /\ DOMAIN materials = {1}
    /\ NotFoundMaterial(materials, 2)
    /\ PointsOf(materials, 1) # <<>>
    /\ DOMAIN orphan_k_points = {}

(***************************************************************************)
(* The energy balance at the outer surface (specification Spec).           *)
(***************************************************************************)
Last(seq) == seq[Len(seq)]

Between(x, a, b) == (RLe(a, x) /\ RLe(x, b)) \/ (RLe(b, x) /\ RLe(x, a))

AllEqual(seq, x) == \A i \in 1..Len(seq) : seq[i] = x

\* The flux leaving through the surface film equals the flux through the wall.
Balanced(result, T_surface) ==
    /\ RSub(T_surface, RDiv(result.q_W_m2, h_W_m2K)) = T_inf_C
    /\ result.q_W_m2 = RMul(h_W_m2K, RSub(T_surface, T_inf_C))
    /\ Between(T_surface, T_left_C, T_inf_C)
    /\ T_left_C = T_inf_C =>
          /\ result.q_W_m2 = Zero
          /\ AllEqual(result.interface_T_C, T_left_C)
          /\ AllEqual(result.T_profile_C, T_left_C)

EnergyBalance(result) ==
    /\ Last(result.interface_T_C) = Last(result.T_profile_C)
    /\ Balanced(result, Last(result.T_profile_C))

\* C25: in the result of _solve_constant_k that solve_multilayer_kT keeps
\* as linear_result and in every result solve_multilayer_kT returns, the
\* flux q and the last boundary temperature T_surface satisfy
\* T_surface - q / h = T_inf and q = h * (T_surface - T_inf), T_surface lies
\* between T_left and T_inf, and for T_left = T_inf the flux is 0 and every
\* temperature equals T_left.
C25_EnergyBalance ==
    /\ linear_result # None => EnergyBalance(linear_result[1])
    /\ Returned => EnergyBalance(outcome[1].val)

\* A result after two passes over a k(T) layer with a hot left side: the
\* surface temperature lies strictly between the boundary temperatures.
C25_Witness ==
    /\ Returned
    /\ iteration = 2
    /\ \E i \in 1..Len(layers) : layers[i].use_kT
    /\ RLt(T_inf_C, Last(outcome[1].val.T_profile_C))
    /\ RLt(Last(outcome[1].val.T_profile_C), T_left_C)
    /\ RLt(Zero, outcome[1].val.q_W_m2)
    /\ outcome[1].val.q_W_m2 # linear_result[1].q_W_m2

(***************************************************************************)
(* The range of the interpolated conductivity (specification InterpSpec).  *)
(***************************************************************************)
\* The conductivity lies between the smallest and the largest sampled one.
WithinSamples(k, points) ==
    /\ \E i \in 1..Len(points) : RLe(points[i][2], k)
    /\ \E i \in 1..Len(points) : RLe(k, points[i][2])

\* The material's points and its constant, if any, are as the store keeps
\* them: above 0.
StoredPositive(material) ==
    /\ AllPositive(material.k_points)
    /\ material.k_const # None => RLt(Zero, material.k_const[1])

\* C26: for a material whose sample points all have a conductivity above 0:
\* interp_k in clamp mode returns a value between the smallest and the
\* largest sampled conductivity, hence above 0, for every temperature; so
\* does the evaluation at T_mid during the layers' resolution; and what the
\* Picard loop's helper returns for a material with positive points and
\* constant, in clamp or in strict mode, passes the loop's positivity check:
\* the cell's resistance is computed and the error 'Interpolated thermal
\* conductivity must be positive' is not raised.
C26_ClampWithinSamples ==
    (call.outcome # None /\ StoredPositive(call.material)) =>
        /\ (call.material.k_points # <<>>
            /\ \/ call.site = "interp_k" /\ call.mode = "clamp"
               \/ call.site = "initial_guess") =>
              /\ IsOk(call.outcome[1])
              /\ WithinSamples(call.outcome[1].val, call.material.k_points)
              /\ RLt(Zero, call.outcome[1].val)
        /\ (call.site = "_interp_material_k" /\ IsOk(call.outcome[1])) =>
              /\ call.material.k_points # <<>> =>
                    WithinSamples(call.outcome[1].val, call.material.k_points)
              /\ RLt(Zero, call.outcome[1].val)
              /\ IsOk(CellResistance(R(1), call.outcome[1]))

\* interp_k in clamp mode at -50, below the sampled range 0..100 of points
\* handed over in descending order, has returned the conductivity of the
\* point at 0, the smallest sampled one.
C26_Witness ==
    /\ call.site = "interp_k"
    /\ call.mode = "clamp"
    /\ call.T_C = R(-50)
    /\ call.material.k_points = <<<<R(100), Q(5, 100)>>, <<R(0), Q(3, 100)>>>>
    /\ call.outcome = Some(Ok(Q(3, 100)))

(***************************************************************************)
(* solve_multilayer_kT in floating-point arithmetic.  Every operation on   *)
(* floats returns the representable value nearest to the exact result      *)
(* (ties to even).  A float carries MantissaBits significant bits: 53 in   *)
(* the source's doubles, fewer here.                                       *)
(***************************************************************************)
MantissaBits == 8

RECURSIVE Pow2(_)
Pow2(n) == IF n = 0 THEN 1 ELSE 2 * Pow2(n - 1)

\* <<a * 2^(-e), e>> with the exponent e chosen so that the scaled value
\* lies in [2^(MantissaBits - 1), 2^MantissaBits), for a > 0.
RECURSIVE Scaled(_, _)
Scaled(a, e) ==
    IF RLe(R(Pow2(MantissaBits)), a) THEN Scaled(RDiv(a, R(2)), e + 1)
    ELSE IF RLt(a, R(Pow2(MantissaBits - 1))) THEN Scaled(RMul(a, R(2)), e - 1)
    ELSE <<a, e>>

\* The integer nearest to a >= 0, a tie going to the even one.
RoundHalfEven(a) ==
    IF \/ 2 * (a[1] % a[2]) > a[2]
       \/ 2 * (a[1] % a[2]) = a[2] /\ (a[1] \div a[2]) % 2 = 1
    THEN (a[1] \div a[2]) + 1
    ELSE a[1] \div a[2]

TimesPow2(m, e) == IF e >= 0 THEN R(m * Pow2(e)) ELSE Q(m, Pow2(-e))

Rounded(scaled) == TimesPow2(RoundHalfEven(scaled[1]), scaled[2])

\* The float nearest to the exact value x.
Fl(x) ==
    IF x = Zero THEN Zero
    ELSE IF RLt(x, Zero) THEN RNeg(Rounded(Scaled(RNeg(x), 0)))
    ELSE Rounded(Scaled(x, 0))

FlAdd(a, b) == Fl(RAdd(a, b))

FlSub(a, b) == Fl(RSub(a, b))

FlMul(a, b) == Fl(RMul(a, b))

FlDiv(a, b) == Fl(RDiv(a, b))

\* sum(s): the entries added one after the other to the running total.
RECURSIVE FlSum(_, _, _)
FlSum(total, s, i) == IF i > Len(s) THEN total ELSE FlSum(FlAdd(total, s[i]), s, i + 1)

\* T.append(T[-1] - q * R) for every R.
RECURSIVE FlWalk(_, _, _)
FlWalk(start, flux, Rs) ==
    IF Rs = <<>> THEN <<start>>
    ELSE <<start>> \o FlWalk(FlSub(start, FlMul(flux, Head(Rs))), flux, Tail(Rs))

\* x_m.append(x_m[-1] + dx) for every width.
RECURSIVE FlPositions(_, _)
FlPositions(start, widths) ==
    IF widths = <<>> THEN <<start>>
    ELSE <<start>> \o FlPositions(FlAdd(start, Head(widths)), Tail(widths))

FlThicknessM(stack) == [i \in 1..Len(stack) |-> FlDiv(stack[i].thickness_mm, R(MmPerM))]

FlResistances(widths, k_values) == [i \in 1..Len(widths) |-> FlDiv(widths[i], k_values[i])]

FlFlux(Rs, left, inf, h) ==
    FlDiv(FlSub(left, inf), FlAdd(FlSum(Zero, Rs, 1), FlDiv(R(1), h)))

\* Lines 455-484 for conductivities above 0.
FlSolveConstantK(thickness_m, Rs, flux, left) ==
    [q_W_m2 |-> flux,
     interface_T_C |-> FlWalk(left, flux, Rs),
     x_m |-> FlPositions(Zero, thickness_m),
     T_profile_C |-> FlWalk(left, flux, Rs)]

FlLinear(stack, k_values, left, inf, h) ==
    FlSolveConstantK(FlThicknessM(stack), FlResistances(FlThicknessM(stack), k_values),
                     FlFlux(FlResistances(FlThicknessM(stack), k_values), left, inf, h), left)

\* Lines 520-521 and 552-562: the resolved layers with dx as the floats give it.
FlDescriptors(descriptors, stack, cells) ==
    [i \in 1..Len(descriptors) |->
        [descriptors[i] EXCEPT !.dx = FlDiv(FlThicknessM(stack)[i], R(cells))]]

FlCellResistances(cells, k_values) ==
    [c \in 1..Len(cells) |-> FlDiv(cells[c].dx, k_values[c])]

\* Lines 566-590.
FlGuessProfile(descriptors, linear, cells, left) ==
    Ok([layer_descriptors |-> descriptors,
        linear_result |-> linear,
        q |-> linear.q_W_m2,
        T_profile |-> FlWalk(left, linear.q_W_m2,
                             FlCellResistances(cells, [c \in 1..Len(cells) |-> cells[c].k_const])),
        x_m |-> FlPositions(Zero, CellWidths(cells))])

FlGuessLinear(resolved, stack, left, inf, h, cells) ==
    IF ~IsOk(resolved) THEN resolved
    ELSE FlGuessProfile(FlDescriptors(resolved.val, stack, cells),
                        FlLinear(stack, ConstantKValues(resolved.val), left, inf, h),
                        Cells(FlDescriptors(resolved.val, stack, cells), cells), left)

\* Lines 498-590.
FlInitialGuess(store, stack, left, inf, h, cells, tolerance, passes) ==
    IF ~IsOk(CheckArguments(stack, h, tolerance, passes, cells))
    THEN CheckArguments(stack, h, tolerance, passes, cells)
    ELSE FlGuessLinear(ResolveLayers(store, stack, TMid(left, inf), cells, 1),
                       stack, left, inf, h, cells)

\* max(abs(a - b) for a, b in zip(T_new, T_profile)) from entry i on.
RECURSIVE FlMaxAbsDiff(_, _, _)
FlMaxAbsDiff(a, b, i) ==
    IF i >= Min(Len(a), Len(b)) THEN RAbs(FlSub(a[i], b[i]))
    ELSE RMax(RAbs(FlSub(a[i], b[i])), FlMaxAbsDiff(a, b, i + 1))

FlPassWalk(T_new, q_new, profile) ==
    Ok([T_new |-> T_new, q_new |-> q_new, diff |-> FlMaxAbsDiff(T_new, profile, 1)])

FlPassFlux(Rs, q_new, profile, left) == FlPassWalk(FlWalk(left, q_new, Rs), q_new, profile)

\* Lines 612-633 for cells whose conductivity does not depend on the
\* temperature: k_value is the cell's constant, read from cell_k_const or
\* returned by _interp_material_k for a material without sample points.
FlPicardPass(cells, profile, left, inf, h, strict) ==
    FlPassFlux(FlCellResistances(cells, [c \in 1..Len(cells) |->
                                            CellK(cells, profile, c, strict).val]),
               FlFlux(FlCellResistances(cells, [c \in 1..Len(cells) |->
                                                   CellK(cells, profile, c, strict).val]),
                      left, inf, h),
               profile, left)

\* Layers of a conductivity that does not depend on the temperature: custom
\* layers, material 1 by its constant, and material 1 with use_kT set, which
\* has no sample points and falls back to its constant.
ConstantKinds ==
    {Layer(R(500), "custom", None, FALSE, Some(R(3))),
     Layer(R(1000), "custom", None, FALSE, Some(R(1))),
     Layer(R(1000), "material", Some(1), FALSE, None),
     Layer(R(500), "material", Some(1), TRUE, None)}

ConstantStacks == UNION {[1..n -> ConstantKinds] : n \in 1..MaxLayers}

FlTolerances == {Q(1, 1024), R(5)}

FlInit ==
    /\ materials = DefaultMaterials
    /\ projects = DefaultProjects
    /\ orphan_k_points = <<>>
    /\ TabInitial
    /\ layers \in ConstantStacks
    /\ \E b \in BoundaryTemperatures : T_left_C = b[1] /\ T_inf_C = b[2]
    /\ h_W_m2K \in {R(1), R(2)}
    /\ cells_per_layer \in 1..MaxCells
    /\ tol \in FlTolerances
    /\ max_iter \in {1, MaxIter}
    /\ clamp \in BOOLEAN
    /\ pc = "entry"
    /\ layer_descriptors = <<>>
    /\ linear_result = None
    /\ T_profile = <<>>
    /\ q = Zero
    /\ x_m = <<>>
    /\ iteration = 0
    /\ diff = None
    /\ outcome = None
    /\ call = NoCall

FlSetup ==
    /\ pc = "entry"
    /\ \E g \in {FlInitialGuess(materials, layers, T_left_C, T_inf_C, h_W_m2K,
                                cells_per_layer, tol, max_iter)} : SetupWith(g)
    /\ UNCHANGED <<args, iteration, diff, call>>

FlPicardIteration ==
    /\ pc = "loop"
    /\ iteration < max_iter
    /\ \E p \in {FlPicardPass(Cells(layer_descriptors, cells_per_layer), T_profile,
                              T_left_C, T_inf_C, h_W_m2K, clamp)} : IterateWith(p)
    /\ UNCHANGED <<args, layer_descriptors, linear_result, x_m, call>>

FlNext == FlSetup \/ FlPicardIteration \/ LoopExhausted \/ Return

FlSpec == FlInit /\ [][FlNext]_vars

(***************************************************************************)
(* Stacks of temperature-independent conductivity.                         *)
(***************************************************************************)
\* No cell's conductivity depends on the temperature: every layer is
\* resolved, and a use_kT layer's material has no sample points.
TemperatureIndependent ==
    /\ layers # <<>>
    /\ IsOk(ResolveLayers(materials, layers, TMid(T_left_C, T_inf_C), 1, 1))
    /\ \A i \in 1..Len(layers) :
          layers[i].use_kT => materials[layers[i].material_id[1]].k_points = <<>>

\* C27: with valid scalar arguments and no conductivity depending on the
\* temperature, the first Picard pass reproduces the initial profile, with
\* diff = 0, the loop is left after that pass, and the call returns a
\* result and does not raise the convergence error, for every tol > 0 and
\* every max_iter >= 1.
C27_FirstPassConverges ==
    (TemperatureIndependent /\ ScalarsValid) =>
        /\ iteration <= 1
        /\ iteration = 1 => diff = Some(Zero) /\ pc \in {"converged", "returned"}
        /\ ~RaisedWith(ErrConvergence)
        /\ Final => Returned

(***************************************************************************)
(* The round trip of a project (specification ProjectStoreSpec).           *)
(***************************************************************************)
Saved == call'.site = "save_project" /\ IsOk(call'.outcome[1])

\* C28: after a save_project call that accepted project p, load_project
\* with p's name string as it was given succeeds and returns p's layers,
\* field by field and in the same order, and p's T_left_C, T_inf_C and
\* h_W_m2K, for every name that is not blank, names with leading or
\* trailing whitespace included.
C28_ProjectRoundTrip ==
    [][Saved => LoadsAs(projects', call'.arguments.name, call'.arguments)]_vars

(***************************************************************************)
(* Isolierung_ui.py, CalculationTab: the layer list and its selection.     *)
(* A row carries the fields mode, material_id, material_name and use_kT;   *)
(* the texts of k_const, thickness and note are left out.  Indices count   *)
(* from 0 as in the source.                                                *)
(***************************************************************************)
MaxRows == 3

Row(mode, material_id, material_name, use_kT) ==
    [mode |-> mode, material_id |-> material_id, material_name |-> material_name,
     use_kT |-> use_kT]

\* Lines 839-859: the row add_layer appends, given the materials of the tab,
\* which refresh_material_options lists by name.
NewRow(store) ==
    IF DOMAIN store = {} THEN Row("custom", None, <<>>, FALSE)
    ELSE Row("material", Some(ByName(store, DOMAIN store)[1]),
             store[ByName(store, DOMAIN store)[1]].name, FALSE)

\* Lines 1393-1414: the row of a project's layer.
ProjectLayerRow(store, layer) ==
    Row(layer.mode, layer.material_id,
        IF layer.mode = "material" /\ layer.material_id # None
              /\ layer.material_id[1] \in DOMAIN store
        THEN store[layer.material_id[1]].name ELSE <<>>,
        layer.use_kT)

\* del rows[index]
DeleteAt(rows, index) ==
    [i \in 1..(Len(rows) - 1) |-> IF i <= index THEN rows[i] ELSE rows[i + 1]]

\* rows[a], rows[b] = rows[b], rows[a]
Swapped(rows, a, b) ==
    [i \in 1..Len(rows) |-> IF i = a + 1 THEN rows[b + 1]
                            ELSE IF i = b + 1 THEN rows[a + 1] ELSE rows[i]]

\* remove_layer with the old index kept as it is.
OldIndex(rows, index) == Some(index)

\* Lines 868-870: new_index of remove_layer, for the rows left.
NewIndex(rows, index) == IF rows # <<>> THEN Some(Min(index, Len(rows) - 1)) ELSE None

\* Lines 903-904: select_index, defaulted from the current selection.
DefaultedIndex(rows, selected, select_index) ==
    IF select_index = None /\ rows # <<>>
    THEN Some(Min(IF selected = None THEN 0 ELSE selected[1], Len(rows) - 1))
    ELSE select_index

\* Lines 906-915: the index refresh_tree selects, or None.
SelectedBy(rows, select_index) ==
    IF select_index # None /\ 0 <= select_index[1] /\ select_index[1] < Len(rows)
    THEN select_index ELSE None

\* Lines 893-917: the tree is rebuilt from the rows, the item at select_index
\* is selected, or the selection is removed; the tree announces the change.
refresh_tree(rows, select_index) ==
    /\ selected_index' = SelectedBy(rows, DefaultedIndex(rows, selected_index, select_index))
    /\ tree_selection' = SelectedBy(rows, DefaultedIndex(rows, selected_index, select_index))
    /\ tree_event' = TRUE

\* The stores of the tab: with and without materials, two saved projects.
EditorMaterials ==
    (1 :> MaterialRow(<<"b">>, Some(R(1)), <<>>)) @@ (2 :> MaterialRow(<<"a">>, None, <<>>))

EditorProjects ==
    (<<"a">> :> ProjectRow(Project(<<"a">>, <<Layer(R(500), "custom", None, FALSE, Some(Q(1, 2)))>>,
                                   R(100), R(0), R(1)))) @@
    (<<"b">> :> ProjectRow(Project(<<"b">>, <<Layer(R(1000), "material", Some(1), TRUE, None),
                                             Layer(R(1000), "material", Some(6), FALSE, None),
                                             Layer(R(500), "custom", None, FALSE, Some(Q(1, 2)))>>,
                                   R(100), R(0), R(1))))

EditorInit ==
    /\ materials \in {EmptyStore, EditorMaterials}
    /\ projects = EditorProjects
    /\ orphan_k_points = <<>>
    /\ TabInitial
    /\ Idle
    /\ call = NoCall

EditorUnchanged ==
    /\ UNCHANGED <<materials, orphan_k_points, projects, call>>
    /\ SolverUnchanged

\* Lines 838-862.
add_layer ==
    /\ Len(layer_rows) < MaxRows
    /\ layer_rows' = Append(layer_rows, NewRow(materials))
    /\ refresh_tree(Append(layer_rows, NewRow(materials)), Some(Len(layer_rows)))
    /\ EditorUnchanged

\* Lines 864-871.
remove_layer ==
    /\ IF selected_index = None THEN UNCHANGED tab
       ELSE /\ layer_rows' = DeleteAt(layer_rows, selected_index[1])
            /\ refresh_tree(DeleteAt(layer_rows, selected_index[1]),
                            NewIndex(DeleteAt(layer_rows, selected_index[1]),
                                     selected_index[1]))
    /\ EditorUnchanged

\* Lines 873-883.
move_layer(direction) ==
    /\ IF selected_index = None THEN UNCHANGED tab
       ELSE IF ~(0 <= selected_index[1] + direction
                 /\ selected_index[1] + direction < Len(layer_rows))
       THEN UNCHANGED tab
       ELSE /\ layer_rows' = Swapped(layer_rows, selected_index[1],
                                     selected_index[1] + direction)
            /\ refresh_tree(Swapped(layer_rows, selected_index[1],
                                    selected_index[1] + direction),
                            Some(selected_index[1] + direction))
    /\ EditorUnchanged

MoveUp == move_layer(-1) /\ call' = call

MoveDown == move_layer(1) /\ call' = call

\* Lines 885-887.
clear_layers ==
    /\ layer_rows' = <<>>
    /\ refresh_tree(<<>>, None)
    /\ EditorUnchanged

ProjectRows(store, stack) == [i \in 1..Len(stack) |-> ProjectLayerRow(store, stack[i])]

\* Lines 1384-1418 for a loaded project.
_apply_project(project) ==
    /\ layer_rows' = ProjectRows(materials, project.layers)
    /\ refresh_tree(ProjectRows(materials, project.layers),
                    IF project.layers # <<>> THEN Some(0) ELSE None)

\* Lines 1367-1379: on_load of the load dialog, for a name of its list or
\* a name that is not stored any more.
OnLoad ==
    /\ \E name \in DOMAIN projects \cup {<<"c">>} :
          IF IsOk(load_project(projects, Strip(name)))
          THEN _apply_project(load_project(projects, Strip(name)).val)
          ELSE UNCHANGED tab
    /\ EditorUnchanged

\* Line 667, selectmode browse: a click on a row selects its item.
ClickRow ==
    /\ \E i \in 0..(Len(layer_rows) - 1) : tree_selection' = Some(i)
    /\ tree_event' = TRUE
    /\ UNCHANGED <<layer_rows, selected_index>>
    /\ EditorUnchanged

\* Lines 941-952: the handler of <<TreeviewSelect>>.
_on_tree_select ==
    /\ tree_event
    /\ tree_event' = FALSE
    /\ selected_index' = tree_selection
    /\ UNCHANGED <<layer_rows, tree_selection>>
    /\ EditorUnchanged

EditorNext ==
    add_layer \/ remove_layer \/ MoveUp \/ MoveDown \/ clear_layers \/ OnLoad
        \/ ClickRow \/ _on_tree_select

EditorSpec == EditorInit /\ [][EditorNext]_vars

(***************************************************************************)
(* Properties of the layer list (specification EditorSpec).                *)
(***************************************************************************)
\* How often a row occurs among the rows.
Count(rows, row) == Cardinality({i \in 1..Len(rows) : rows[i] = row})

SameMultiset(a, b) ==
    /\ Len(a) = Len(b)
    /\ \A i \in 1..Len(a) : Count(a, a[i]) = Count(b, a[i])

SelectionValid ==
    /\ selected_index = None <=> layer_rows = <<>>
    /\ selected_index # None =>
          0 <= selected_index[1] /\ selected_index[1] < Len(layer_rows)

\* The selected row and its neighbour in the given direction have changed
\* places, every other row stays, and the selection is on the moved row.
MovedBy(direction) ==
    /\ selected_index' = Some(selected_index[1] + direction)
    /\ layer_rows'[selected_index[1] + direction + 1] = layer_rows[selected_index[1] + 1]
    /\ layer_rows'[selected_index[1] + 1] = layer_rows[selected_index[1] + direction + 1]
    /\ \A i \in 1..Len(layer_rows) :
          i \notin {selected_index[1] + 1, selected_index[1] + direction + 1} =>
              layer_rows'[i] = layer_rows[i]
    /\ SameMultiset(layer_rows', layer_rows)

AtEnd(direction) ==
    \/ selected_index = None
    \/ selected_index[1] + direction < 0
    \/ selected_index[1] + direction >= Len(layer_rows)

MovePost(direction) ==
    IF AtEnd(direction) THEN UNCHANGED <<layer_rows, selected_index>>
    ELSE MovedBy(direction)

\* C30: after any sequence of add_layer, remove_layer, move_layer(-1),
\* move_layer(+1), clear_layers and project loads, with clicks on rows and
\* the tree's selection events in between, selected_index is None exactly
\* when layer_rows is empty and otherwise 0 <= selected_index <
\* len(layer_rows); a move_layer step swaps the selected row with its
\* neighbour, the selection following the moved row and the multiset of
\* rows unchanged, and changes nothing at either end of the list.
C30_LayerListSelection ==
    [][/\ SelectionValid'
       /\ move_layer(-1) => MovePost(-1)
       /\ move_layer(1) => MovePost(1)]_vars

\* The loaded project's three different rows after its first row was moved
\* down: the selection is on the moved row, now in the middle.
C30_Witness ==
    /\ Len(layer_rows) = 3
    /\ selected_index = Some(1)
    /\ layer_rows[2] = Row("material", Some(1), <<"b">>, TRUE)
    /\ layer_rows[1] = Row("material", Some(6), <<>>, FALSE)
    /\ layer_rows[3] = Row("custom", None, <<>>, FALSE)

(***************************************************************************)
(* Strict mode against clamp mode (specification RampSpec).                *)
(***************************************************************************)
RECURSIVE ClampedPasses(_, _, _)
\* Lines 634-640 after a pass with clamp on: its error, the result when
\* diff < tol, or the next pass.
ClampedAfter(cells, p, done) ==
    IF ~IsOk(p) THEN p
    ELSE IF Converged(p.val.diff, tol)
    THEN Ok([q |-> p.val.q_new, T_profile |-> p.val.T_new, iterations |-> done + 1])
    ELSE ClampedPasses(cells, p.val.T_new, done + 1)

\* Lines 611-640 with clamp on, from the given profile after done passes.
ClampedPasses(cells, profile, done) ==
    IF done >= max_iter THEN Raise(ErrConvergence)
    ELSE ClampedAfter(cells,
                      PicardPass(cells, profile, T_left_C, T_inf_C, h_W_m2K, TRUE),
                      done)

ClampedFrom(g) ==
    IF ~IsOk(g) THEN g
    ELSE ClampedPasses(Cells(g.val.layer_descriptors, cells_per_layer), g.val.T_profile, 0)

\* solve_multilayer_kT on the arguments of the call with clamp=True.
SolveClamped ==
    ClampedFrom(InitialGuess(materials, layers, T_left_C, T_inf_C, h_W_m2K,
                             cells_per_layer, tol, max_iter))

\* The call has raised before it held a profile.
RaisedInSetup == pc = "raised" /\ T_profile = <<>>

\* C29: a call of solve_multilayer_kT with clamp=False that has returned
\* has the flux, the profile and the number of passes of the call with
\* clamp=True on the same arguments; with clamp=False the call raises no
\* range error before its first pass, and stands before its first pass
\* with the guess evaluated, clamped, at (T_left + T_inf) / 2, also when
\* that temperature lies outside a layer's sampled range.
C29_StrictRestrictsClamp ==
    /\ (Returned /\ ~clamp) =>
          /\ IsOk(SolveClamped)
          /\ SolveClamped.val.q = outcome[1].val.q_W_m2
          /\ SolveClamped.val.T_profile = outcome[1].val.T_profile_C
          /\ SolveClamped.val.iterations = iteration
    /\ (RaisedInSetup /\ ~clamp) => outcome # Some(Raise(ErrRange))
    /\ (BeforeFirstPass /\ ~clamp) => GuessIs(GuessLinearResult)

\* A strict call on a layer of material 7, sampled on [74.9, 76.9], between
\* 100 and 0 degrees has returned after a pass: the mean boundary
\* temperature 50 lies outside the samples, the cell's mean inside.
C29_Witness ==
    /\ Returned
    /\ ~clamp
    /\ layers[1].material_id = Some(7)
    /\ layers[1].use_kT
    /\ OutsideSamples(materials[7], MeanBoundaryT)
    /\ T_left_C # T_inf_C
    /\ iteration >= 1
    /\ outcome[1].val.T_profile_C # linear_result[1].T_profile_C

====
